---- MODULE Spec2Model ----
(***************************************************************************)
(* One invocation of supabase-storage-cli: the dispatcher hands the parsed *)
(* arguments to exactly one of the three command handlers (bucket, file,   *)
(* url); the handler checks the key, validates the arguments, starts one   *)
(* storage-client operation, awaits it, and renders the result.            *)
(*                                                                         *)
(* Strings the code looks into (local and remote paths) are sequences of   *)
(* one-character strings; strings it only passes along are TLA+ strings.   *)
(* An optional value is None (undefined) or Some(v).                       *)
(***************************************************************************)
EXTENDS Integers, Sequences, FiniteSets, TLC

\* ------------------------------------------------------------------------
\* Bounds of the model
\* ------------------------------------------------------------------------
MaxArgs == 2   \* longest list of positional [args..]
MaxData == 2   \* longest list the storage client returns

\* ------------------------------------------------------------------------
\* Optional values and JavaScript truthiness
\* ------------------------------------------------------------------------
None == <<>>
Some(x) == <<x>>
Val(o) == o[1]

\* faulty variant: `=== undefined` where the code tests truthiness
FalsyStr_onlyUndefined(o) == o = None

\* !s for an optional opaque string: undefined or ''
FalsyStr(o) == o = None \/ Val(o) = ""
\* !p for an optional path (a sequence of characters): undefined or ''
FalsyPath(o) == o = None \/ Len(Val(o)) = 0
\* faulty variant: b || a, the second operand is preferred
OrPath_secondFirst(a, b) == IF FalsyPath(b) THEN a ELSE b

\* a || b on optional paths
OrPath(a, b) == IF FalsyPath(a) THEN b ELSE a

SeqsUpTo(S, n) == UNION {[1..k -> S] : k \in 0..n}

\* ------------------------------------------------------------------------
\* Paths: node's posix path.basename / path.extname, String.toLowerCase
\* ------------------------------------------------------------------------
RECURSIVE StripTrailingSlashes(_)
StripTrailingSlashes(p) ==
  IF Len(p) > 1 /\ p[Len(p)] = "/" THEN StripTrailingSlashes(SubSeq(p, 1, Len(p) - 1))
  ELSE p

\* index of the last occurrence of character c in p, 0 when there is none
RECURSIVE LastIndexOf(_, _)
LastIndexOf(p, c) ==
  IF Len(p) = 0 THEN 0
  ELSE IF p[Len(p)] = c THEN Len(p)
  ELSE LastIndexOf(SubSeq(p, 1, Len(p) - 1), c)
\* faulty variant: the local path is passed on whole
basename_whole(p) == p

basename(p) ==
  LET q == StripTrailingSlashes(p)
      s == LastIndexOf(q, "/")
  IN IF q = <<"/">> THEN <<>> ELSE SubSeq(q, s + 1, Len(q))

\* from the last dot of the base name on; '' when there is no dot, when the
\* only dot is the first character, and for '..'
extname(p) ==
  LET b == basename(p)
      d == LastIndexOf(b, ".")
  IN IF d <= 1 \/ b = <<".", ".">> THEN <<>> ELSE SubSeq(b, d, Len(b))

LowerChar(c) ==
  LET upper == <<"A", "B", "C", "D", "E", "F", "G", "H", "I", "J", "K", "L", "M",
                 "N", "O", "P", "Q", "R", "S", "T", "U", "V", "W", "X", "Y", "Z">>
      lower == <<"a", "b", "c", "d", "e", "f", "g", "h", "i", "j", "k", "l", "m",
                 "n", "o", "p", "q", "r", "s", "t", "u", "v", "w", "x", "y", "z">>
  IN IF \E i \in 1..26 : upper[i] = c
     THEN lower[CHOOSE i \in 1..26 : upper[i] = c]
     ELSE c

\* faulty variant: the extension is looked up as written
toLowerCase_asWritten(p) == p

toLowerCase(p) == [i \in 1..Len(p) |-> LowerChar(p[i])]

getContentType(filename) ==
  LET ext == toLowerCase(extname(filename))
  IN CASE ext = <<".", "j", "p", "g">> -> "image/jpeg"
       [] ext = <<".", "j", "p", "e", "g">> -> "image/jpeg"
       [] ext = <<".", "p", "n", "g">> -> "image/png"
       [] ext = <<".", "g", "i", "f">> -> "image/gif"
       [] ext = <<".", "w", "e", "b", "p">> -> "image/webp"
       [] ext = <<".", "p", "d", "f">> -> "application/pdf"
       [] ext = <<".", "j", "s", "o", "n">> -> "application/json"
       [] ext = <<".", "t", "x", "t">> -> "text/plain"
       [] ext = <<".", "m", "p", "4">> -> "video/mp4"
       [] ext = <<".", "m", "p", "3">> -> "audio/mpeg"
       [] OTHER -> "application/octet-stream"

\* ------------------------------------------------------------------------
\* formatBytes. A byte count is a JavaScript number, a double; counts below
\* 1024^5 are integers a double holds exactly. Here a count is the sequence
\* of its base-1024 digits, least significant first, so that no intermediate
\* value outgrows the model checker's integers.
\* ------------------------------------------------------------------------
\* the base-1024 digits of the integer n, len of them
RECURSIVE DigitsOf(_, _)
DigitsOf(n, len) ==
  IF len = 0 THEN <<>> ELSE <<n % 1024>> \o DigitsOf(n \div 1024, len - 1)

\* p + c * 1024^(j-1)
RECURSIVE AddAt(_, _, _)
AddAt(p, j, c) ==
  IF c = 0 \/ j > Len(p) THEN p
  ELSE AddAt([p EXCEPT ![j] = (p[j] + c) % 1024], j + 1, (p[j] + c) \div 1024)

\* d * m + carry, one digit longer than d
RECURSIVE Times(_, _, _)
Times(d, m, carry) ==
  IF Len(d) = 0 THEN <<carry>>
  ELSE <<(Head(d) * m + carry) % 1024>> \o Times(Tail(d), m, (Head(d) * m + carry) \div 1024)

\* number of significant bits of x: 0 for 0
RECURSIVE BitLen(_)
BitLen(x) == IF x = 0 THEN 0 ELSE 1 + BitLen(x \div 2)

\* position of the highest non-zero digit, 0 when there is none
RECURSIVE TopDigit(_)
TopDigit(d) ==
  IF Len(d) = 0 THEN 0
  ELSE IF d[Len(d)] # 0 THEN Len(d)
  ELSE TopDigit(SubSeq(d, 1, Len(d) - 1))

\* Math.floor(Math.log(bytes) / Math.log(k)) for bytes >= 1. Math.log is
\* only approximated by the engine: the quotient is taken to fall on the
\* right side of every integer, which holds for the counts the model draws
\* (none within 1024 of 1024^5; the powers 1024^1..1024^4 are pinned by the
\* repository's tests).
FloorLog1024(d) == TopDigit(d) - 1

\* IEEE 754 rounding of the integer p to the 53 significant bits of a
\* double, ties to even; p has at most 57 bits, so at most 4 are dropped
RoundToDouble(p) ==
  LET bits == 10 * (TopDigit(p) - 1) + BitLen(p[TopDigit(p)])
      drop == IF TopDigit(p) = 0 \/ bits <= 53 THEN 0 ELSE bits - 53
      unit == 2 ^ drop
      rest == p[1] % unit
      kept == [p EXCEPT ![1] = p[1] - rest]
      up == \/ 2 * rest > unit
            \/ 2 * rest = unit /\ (p[1] \div unit) % 2 = 1
  IN IF drop = 0 \/ rest = 0 THEN p
     ELSE IF up THEN AddAt(kept, 1, unit) ELSE kept

\* Math.round((bytes / Math.pow(k, i)) * 100): the division by a power of
\* two is exact, the product is rounded to a double, and Math.round is
\* floor(x + 1/2)
roundedHundredths(d, i) ==
  LET product == RoundToDouble(Times(d, 100, 0))
      halfAdded == IF i = 0 THEN product ELSE AddAt(product, i, 512)
  IN halfAdded[i + 1] + 1024 * halfAdded[i + 2]

\* the decimal digits of a natural number
RECURSIVE DecimalDigits(_)
DecimalDigits(n) ==
  LET digit == <<"0", "1", "2", "3", "4", "5", "6", "7", "8", "9">>[(n % 10) + 1]
  IN IF n < 10 THEN <<digit>> ELSE Append(DecimalDigits(n \div 10), digit)

\* (h / 100).toString(): the shortest decimal, so trailing zeros are dropped
numberToString(h) ==
  DecimalDigits(h \div 100)
    \o (IF h % 100 = 0 THEN <<>>
        ELSE IF h % 10 = 0 THEN <<".">> \o DecimalDigits((h % 100) \div 10)
        ELSE <<".">> \o DecimalDigits((h % 100) \div 10) \o DecimalDigits(h % 10))

sizes == <<<<"B">>, <<"K", "B">>, <<"M", "B">>, <<"G", "B">>, <<"T", "B">>>>

\* formatBytes on the digits of the count; the result is the string, one
\* character per element
formatBytes1024(d) ==
  IF TopDigit(d) = 0 THEN <<"0", " ", "B">>
  ELSE LET i == FloorLog1024(d)
       IN numberToString(roundedHundredths(d, i)) \o <<" ">> \o sizes[i + 1]

formatBytes(bytes) == formatBytes1024(DigitsOf(bytes, 5))

\* JSON.stringify(value, null, 2)
JSONstringify(value) == [json |-> value, indent |-> 2]

\* ------------------------------------------------------------------------
\* State of one invocation
\* ------------------------------------------------------------------------
VARIABLES
  argv,       \* the parsed arguments handed to the handler (never changes)
  localfs,    \* the local disk: [readable, size] of the file named by --file,
              \* writable: whether the download's output path can be written
  pc,         \* "start" | "awaiting" (client operation in flight) | "done"
  pending,    \* the function suspended at its await, with its locals
  calls,      \* storage-client operations invoked so far, in order
  resp,       \* None, or Some(response the client operation settled with)
  out,        \* logger lines printed so far: [ch, text, args]
  exitCalls,  \* statuses passed to process.exit so far
  written     \* fs.writeFileSync invocations so far, in order: [path, data]

vars == <<argv, localfs, pc, pending, calls, resp, out, exitCalls, written>>

\* ------------------------------------------------------------------------
\* Input domains
\* ------------------------------------------------------------------------
LocalFile == <<"d", "/", "a", ".", "T", "X", "T">>   \* --file d/a.TXT
RemoteP == <<"r", "/", "p", ".", "p", "n", "g">>     \* --path r/p.png
ArgA == <<"a", ".", "t", "x", "t">>                  \* a.txt
ArgB == <<"x", "/", "b">>                            \* x/b
OutP == <<"o", ".", "b", "i", "n">>                  \* --output o.bin

Keys == {"", "service-key"}
BucketNames == {"", "test-bucket"}
OptNames == {None, Some(""), Some("test-bucket")}
OptPublic == {None, Some(TRUE), Some(FALSE)}
OptLocal == {None, Some(<<>>), Some(LocalFile)}
OptRemote == {None, Some(<<>>), Some(RemoteP)}
OptOutput == {None, Some(OutP)}
OptFromTo == {None, Some(""), Some("old.txt")}
OptPrefix == {None, Some("folder")}
OptSearch == {None, Some("term")}
Limits == {100, 5}
Expiries == {3600, 7200}
ArgLists == {None} \cup {Some(s) : s \in SeqsUpTo({<<>>, ArgA, ArgB}, MaxArgs)}
\* --download: absent, true (as the tests pass it), '' or a file name
OptDownload == {None, Some([type |-> "boolean", b |-> TRUE]),
                Some([type |-> "string", s |-> ""]),
                Some([type |-> "string", s |-> "name.txt"])}
LocalFiles ==
  {[readable |-> FALSE, size |-> 0, writable |-> TRUE],
   [readable |-> TRUE, size |-> 0, writable |-> TRUE],
   [readable |-> TRUE, size |-> 1536, writable |-> TRUE]}
NoLocalFile == [readable |-> FALSE, size |-> 0, writable |-> TRUE]
\* the output path of a download can or cannot be written
OutputTargets == {[readable |-> FALSE, size |-> 0, writable |-> w] : w \in BOOLEAN}

BucketActions == {"list", "create", "get", "update", "empty", "delete"}
FileActions == {"upload", "download", "list", "delete", "move", "copy", "info", "exists",
                "update"}
UrlActions == {"public", "signed", "signed-upload", "signed-urls"}
UnknownActions == {"unknown"}

BucketArgv ==
  {[group |-> "bucket", action |-> a, name |-> n, key |-> k, json |-> j, public |-> p] :
     a \in BucketActions \cup UnknownActions, n \in OptNames, k \in Keys, j \in BOOLEAN,
     p \in OptPublic}

\* .option('limit', { default: 100 }) and .option('expires', { default: 3600 })
limitDefault == 100
expiresDefault == 3600

\* The options an action does not read keep the value yargs gives them when
\* they are not on the command line.
FileDefaults(a, b, k, j) ==
  [group |-> "file", action |-> a, bucket |-> b, key |-> k, json |-> j,
   file |-> None, path |-> None, output |-> None, args |-> None, from |-> None,
   to |-> None, prefix |-> None, limit |-> limitDefault, search |-> None, upsert |-> FALSE]

FileVariants(d) ==
  CASE d.action \in {"upload", "update"} ->
         {[d EXCEPT !.file = f, !.path = p, !.upsert = u] :
            f \in OptLocal, p \in OptRemote, u \in BOOLEAN}
    [] d.action = "download" ->
         {[d EXCEPT !.path = p, !.args = l, !.output = o] :
            p \in OptRemote, l \in ArgLists, o \in OptOutput}
    [] d.action = "list" ->
         {[d EXCEPT !.prefix = p, !.limit = n, !.search = s] :
            p \in OptPrefix, n \in Limits, s \in OptSearch}
    [] d.action = "delete" -> {[d EXCEPT !.args = l] : l \in ArgLists}
    [] d.action \in {"move", "copy"} ->
         {[d EXCEPT !.from = f, !.to = t] : f \in OptFromTo, t \in OptFromTo}
    [] d.action \in {"info", "exists"} ->
         {[d EXCEPT !.path = p, !.args = l] : p \in OptRemote, l \in ArgLists}
    [] OTHER -> {d}

FileArgv ==
  UNION {FileVariants(FileDefaults(a, b, k, j)) :
           a \in FileActions \cup UnknownActions, b \in BucketNames, k \in Keys,
           j \in BOOLEAN}

UrlDefaults(a, b, k, j) ==
  [group |-> "url", action |-> a, bucket |-> b, key |-> k, json |-> j,
   path |-> None, args |-> None, expires |-> expiresDefault, download |-> None]

UrlVariants(d) ==
  CASE d.action = "public" ->
         {[d EXCEPT !.path = p, !.download = w] : p \in OptRemote, w \in OptDownload}
    [] d.action = "signed" ->
         {[d EXCEPT !.path = p, !.expires = e, !.download = w] :
            p \in OptRemote, e \in Expiries, w \in OptDownload}
    [] d.action = "signed-upload" -> {[d EXCEPT !.path = p] : p \in OptRemote}
    [] d.action = "signed-urls" ->
         {[d EXCEPT !.path = p, !.args = l, !.expires = e, !.download = w] :
            p \in OptRemote, l \in ArgLists, e \in Expiries, w \in OptDownload}
    [] OTHER -> {d}

UrlArgv ==
  UNION {UrlVariants(UrlDefaults(a, b, k, j)) :
           a \in UrlActions \cup UnknownActions, b \in BucketNames, k \in Keys,
           j \in BOOLEAN}

\* ------------------------------------------------------------------------
\* Responses of the storage client
\* ------------------------------------------------------------------------
ErrorMessages == {"Storage error"}
ThrownMessages == {"fetch failed"}

\* { data, error } as storage-js resolves it, or a rejected promise (thrown)
Responses(dataSet) ==
  {[thrown |-> FALSE, data |-> Some(d), error |-> None] : d \in dataSet}
    \cup {[thrown |-> FALSE, data |-> None, error |-> Some(m)] : m \in ErrorMessages}
    \cup {[thrown |-> TRUE, data |-> None, error |-> Some(m)] : m \in ThrownMessages}

BucketData ==
  {[id |-> "photos", name |-> "photos", public |-> TRUE,
    created_at |-> "2024-01-15", updated_at |-> "2024-01-20",
    file_size_limit |-> Some(52428800), allowed_mime_types |-> Some(<<"image/png">>)],
   [id |-> "documents", name |-> "documents", public |-> FALSE,
    created_at |-> "2024-01-15", updated_at |-> "2024-01-20",
    file_size_limit |-> None, allowed_mime_types |-> None]}
BucketListData == SeqsUpTo(BucketData, MaxData)
MessageData == {[message |-> "ok"]}
NameData == {[name |-> "test-bucket"]}

\* ------------------------------------------------------------------------
\* Logger lines and the outcome of the synchronous part of a handler
\* ------------------------------------------------------------------------
Line(ch, text, args) == [ch |-> ch, text |-> text, args |-> args]

\* process.exit(1) after printing lines
Exit(lines) == [kind |-> "exit", lines |-> lines]
\* throw new Error(text), with the values interpolated into text
Throw(text, args) == [kind |-> "throw", text |-> text, args |-> args]
\* suspended at `await client...`: the operation is started
Await(call, lines, locals) ==
  [kind |-> "await", call |-> call, lines |-> lines, locals |-> locals]

\* faulty variant: in JSON mode the caught error goes to the normal channel
Catch_jsonToLog(r) ==
  IF r.kind = "throw"
  THEN Exit(<<Line(IF argv.json THEN "log" ELSE "error", r.text, r.args)>>)
  ELSE r

\* faulty variant: the values interpolated into the message are lost
Catch_withoutValues(r) ==
  IF r.kind = "throw" THEN Exit(<<Line("error", r.text, <<>>)>>) ELSE r

\* catch (error) { logger.error(error.message); process.exit(1) }
Catch(r) ==
  IF r.kind = "throw" THEN Exit(<<Line("error", r.text, r.args)>>) ELSE r

\* ------------------------------------------------------------------------
\* Shared by the three handlers
\* ------------------------------------------------------------------------
\* faulty variant: only an undefined key counts, and yargs always supplies a string
keyMissing_onlyUndefined(key) == FALSE

\* if (!key)
keyMissing(key) == key = ""

\* faulty variant: the handler goes on to the bucket check before exiting
KeyNotSet_thenBucket ==
  Exit(<<Line("error", "Storage key not set", <<>>),
         Line("info", "Set STORAGE_SERVICE_KEY or use --key option", <<>>),
         Line("error", "Bucket name required", <<>>)>>)

KeyNotSet ==
  Exit(<<Line("error", "Storage key not set", <<>>),
         Line("info", "Set STORAGE_SERVICE_KEY or use --key option", <<>>)>>)

\* if (!bucket) in the file and url handlers
bucketMissing(bucket) == bucket = ""

BucketNotSet == Exit(<<Line("error", "Bucket name required", <<>>)>>)

\* if (error) throw error; a rejected promise throws at the await
errorThrown(r) == r.thrown \/ r.error # None

\* if (asJson) logger.log(JSON.stringify(data, null, 2))
JsonLines(asJson, data) ==
  IF asJson THEN <<Line("log", "${json}", <<JSONstringify(data)>>)>> ELSE <<>>

\* x.forEach(f): the lines f prints for each entry are joined in order
RECURSIVE Flatten(_)
Flatten(ls) == IF Len(ls) = 0 THEN <<>> ELSE Head(ls) \o Flatten(Tail(ls))


\* a number that is neither null/undefined nor 0
TruthyNum(o) == o # None /\ Val(o) # 0

\* ------------------------------------------------------------------------
\* bucket command: the functions up to their await
\* ------------------------------------------------------------------------
listBuckets(asJson) ==
  Await([op |-> "listBuckets", args |-> <<>>], <<>>,
        [fn |-> "listBuckets", asJson |-> asJson])
\* faulty variant: isPublic: boolean = true
createBucket_defaultsPublic(name, isPublic, asJson) ==
  Await([op |-> "createBucket",
         args |-> <<name, [public |-> IF isPublic = None THEN TRUE ELSE Val(isPublic)]>>],
        <<>>, [fn |-> "createBucket", name |-> name, asJson |-> asJson])

\* isPublic: boolean = false
createBucket(name, isPublic, asJson) ==
  Await([op |-> "createBucket",
         args |-> <<name, [public |-> IF isPublic = None THEN FALSE ELSE Val(isPublic)]>>],
        <<>>, [fn |-> "createBucket", name |-> name, asJson |-> asJson])

getBucket(name, asJson) ==
  Await([op |-> "getBucket", args |-> <<name>>], <<>>,
        [fn |-> "getBucket", name |-> name, asJson |-> asJson])
\* faulty variant: `if (!isPublic)`, which also rejects --public=false
updateBucket_rejectsFalse(name, isPublic, asJson) ==
  IF isPublic = None \/ ~Val(isPublic) THEN Throw("--public flag required for update", <<>>)
  ELSE Await([op |-> "updateBucket", args |-> <<name, [public |-> Val(isPublic)]>>],
             <<>>, [fn |-> "updateBucket", name |-> name, asJson |-> asJson])

updateBucket(name, isPublic, asJson) ==
  IF isPublic = None THEN Throw("--public flag required for update", <<>>)
  ELSE Await([op |-> "updateBucket", args |-> <<name, [public |-> Val(isPublic)]>>],
             <<>>, [fn |-> "updateBucket", name |-> name, asJson |-> asJson])

emptyBucket(name) ==
  Await([op |-> "emptyBucket", args |-> <<name>>], <<>>,
        [fn |-> "emptyBucket", name |-> name])

deleteBucket(name) ==
  Await([op |-> "deleteBucket", args |-> <<name>>], <<>>,
        [fn |-> "deleteBucket", name |-> name])

\* the synchronous part of the bucket handler
bucketHandler(a) ==
  IF keyMissing(a.key) THEN KeyNotSet
  ELSE Catch(
    CASE a.action = "list" -> listBuckets(a.json)
      [] a.action = "create" ->
           IF FalsyStr(a.name) THEN Throw("Bucket name required", <<>>)
           ELSE createBucket(Val(a.name), a.public, a.json)
      [] a.action = "get" ->
           IF FalsyStr(a.name) THEN Throw("Bucket name required", <<>>)
           ELSE getBucket(Val(a.name), a.json)
      [] a.action = "update" ->
           IF FalsyStr(a.name) THEN Throw("Bucket name required", <<>>)
           ELSE updateBucket(Val(a.name), a.public, a.json)
      [] a.action = "empty" ->
           IF FalsyStr(a.name) THEN Throw("Bucket name required", <<>>)
           ELSE emptyBucket(Val(a.name))
      [] a.action = "delete" ->
           IF FalsyStr(a.name) THEN Throw("Bucket name required", <<>>)
           ELSE deleteBucket(Val(a.name))
      [] OTHER -> Throw("Unknown action: ${action}", <<a.action>>))

\* ------------------------------------------------------------------------
\* bucket command: rendering after the await
\* ------------------------------------------------------------------------
\* faulty variant: the visibility marker ignores bucket.public
listBucketsLine_alwaysPublic(bucket) ==
  <<Line("log", "  ${visibility}  ${bucket.name}", <<"Public", bucket.name>>)>>
    \o (IF TruthyNum(bucket.file_size_limit)
        THEN <<Line("log", "    Size Limit: ${formatBytes(bucket.file_size_limit)}",
                    <<formatBytes(Val(bucket.file_size_limit))>>)>>
        ELSE <<>>)

listBucketsLine(bucket) ==
  <<Line("log", "  ${visibility}  ${bucket.name}",
         <<IF bucket.public THEN "Public" ELSE "Private", bucket.name>>)>>
    \o (IF TruthyNum(bucket.file_size_limit)
        THEN <<Line("log", "    Size Limit: ${formatBytes(bucket.file_size_limit)}",
                    <<formatBytes(Val(bucket.file_size_limit))>>)>>
        ELSE <<>>)

listBucketsRender(l, data) ==
  IF l.asJson THEN JsonLines(TRUE, data)
  ELSE <<Line("log", "Buckets (${data.length})", <<Len(data)>>)>>
         \o Flatten([i \in 1..Len(data) |-> listBucketsLine(data[i])])

createBucketRender(l, data) ==
  <<Line("success", "Bucket created: ${name}", <<l.name>>)>> \o JsonLines(l.asJson, data)

getBucketRender(l, data) ==
  IF l.asJson THEN JsonLines(TRUE, data)
  ELSE <<Line("log", "Bucket: ${data.name}", <<data.name>>),
         Line("log", "  ID:          ${data.id}", <<data.id>>),
         Line("log", "  Public:      ${data.public}", <<IF data.public THEN "Yes" ELSE "No">>),
         Line("log", "  Created:     ${data.created_at}", <<data.created_at>>),
         Line("log", "  Updated:     ${data.updated_at}", <<data.updated_at>>)>>
         \o (IF TruthyNum(data.file_size_limit)
             THEN <<Line("log", "  Size Limit:  ${formatBytes(data.file_size_limit)}",
                         <<formatBytes(Val(data.file_size_limit))>>)>>
             ELSE <<>>)
         \o (IF data.allowed_mime_types # None
             THEN <<Line("log", "  MIME Types:  ${data.allowed_mime_types.join(', ')}",
                         <<Val(data.allowed_mime_types)>>)>>
             ELSE <<>>)

updateBucketRender(l, data) ==
  <<Line("success", "Bucket updated: ${name}", <<l.name>>)>> \o JsonLines(l.asJson, data)

emptyBucketRender(l, data) == <<Line("success", "Bucket emptied: ${name}", <<l.name>>)>>

deleteBucketRender(l, data) == <<Line("success", "Bucket deleted: ${name}", <<l.name>>)>>

\* ------------------------------------------------------------------------
\* file command: the functions up to their await
\* ------------------------------------------------------------------------
\* fs.readFileSync(filePath)
fileBuffer(filePath) == [contentOf |-> filePath]

ReadError(filePath) ==
  Throw("ENOENT: no such file or directory, open '${filePath}'", <<filePath>>)

\* faulty variant: the upload is started with the path, whether or not the
\* local file can be read
uploadFile_withoutReading(fs, bucket, filePath, remotePath, upsert, asJson) ==
  LET fileName == Val(OrPath(remotePath, Some(basename(filePath))))
  IN Await([op |-> "upload", from |-> bucket,
            args |-> <<fileName, fileBuffer(filePath),
                       [upsert |-> upsert, contentType |-> getContentType(filePath)]>>],
           <<Line("info", "Uploading ${formatBytes(stats.size)}...",
                  <<formatBytes(fs.size)>>)>>,
           [fn |-> "uploadFile", bucket |-> bucket, asJson |-> asJson])

uploadFile(fs, bucket, filePath, remotePath, upsert, asJson) ==
  LET fileName == Val(OrPath(remotePath, Some(basename(filePath))))
  IN IF ~fs.readable THEN ReadError(filePath)
     ELSE Await([op |-> "upload", from |-> bucket,
                 args |-> <<fileName, fileBuffer(filePath),
                            [upsert |-> upsert, contentType |-> getContentType(filePath)]>>],
                <<Line("info", "Uploading ${formatBytes(stats.size)}...",
                       <<formatBytes(fs.size)>>)>>,
                [fn |-> "uploadFile", bucket |-> bucket, asJson |-> asJson])

\* faulty variant: the success line is printed before the download is awaited
downloadFile_reportsEarly(bucket, remotePath, outputPath, asJson) ==
  Await([op |-> "download", from |-> bucket, args |-> <<remotePath>>],
        <<Line("info", "Downloading...", <<>>),
          Line("success", "Downloaded: ${output} (${formatBytes(buffer.length)})",
               <<remotePath, formatBytes(0)>>)>>,
        [fn |-> "downloadFile", remotePath |-> remotePath, outputPath |-> outputPath])

downloadFile(bucket, remotePath, outputPath, asJson) ==
  Await([op |-> "download", from |-> bucket, args |-> <<remotePath>>],
        <<Line("info", "Downloading...", <<>>)>>,
        [fn |-> "downloadFile", remotePath |-> remotePath, outputPath |-> outputPath])

listFiles(bucket, prefix, limit, search, asJson) ==
  Await([op |-> "list", from |-> bucket,
         args |-> <<IF FalsyStr(prefix) THEN "" ELSE Val(prefix),
                    [limit |-> limit, search |-> search]>>],
        <<>>,
        [fn |-> "listFiles", bucket |-> bucket, prefix |-> prefix, asJson |-> asJson])

deleteFiles(bucket, paths, asJson) ==
  Await([op |-> "remove", from |-> bucket, args |-> <<paths>>],
        <<Line("info", "Deleting ${paths.length} file(s)...", <<Len(paths)>>)>>,
        [fn |-> "deleteFiles", asJson |-> asJson])

moveFile(bucket, from, to, asJson) ==
  Await([op |-> "move", from |-> bucket, args |-> <<from, to>>], <<>>,
        [fn |-> "moveFile", from |-> from, to |-> to, asJson |-> asJson])

copyFile(bucket, from, to, asJson) ==
  Await([op |-> "copy", from |-> bucket, args |-> <<from, to>>], <<>>,
        [fn |-> "copyFile", from |-> from, to |-> to, asJson |-> asJson])

getFileInfo(bucket, filePath, asJson) ==
  Await([op |-> "info", from |-> bucket, args |-> <<filePath>>],
        <<Line("info", "Getting file info...", <<>>)>>,
        [fn |-> "getFileInfo", asJson |-> asJson])

checkFileExists(bucket, filePath, asJson) ==
  Await([op |-> "exists", from |-> bucket, args |-> <<filePath>>], <<>>,
        [fn |-> "checkFileExists", filePath |-> filePath, asJson |-> asJson])

updateFile(fs, bucket, filePath, remotePath, upsert, asJson) ==
  IF ~fs.readable THEN ReadError(filePath)
  ELSE Await([op |-> "update", from |-> bucket,
              args |-> <<remotePath, fileBuffer(filePath),
                         [upsert |-> upsert, contentType |-> getContentType(filePath)]>>],
             <<Line("info", "Updating ${formatBytes(stats.size)}...",
                    <<formatBytes(fs.size)>>)>>,
             [fn |-> "updateFile", bucket |-> bucket, asJson |-> asJson])

\* argv.args || []
ArgsOrEmpty(args) == IF args = None THEN <<>> ELSE Val(args)

\* pathsFromArgs[0]
FirstArg(args) == IF Len(ArgsOrEmpty(args)) = 0 THEN None ELSE Some(ArgsOrEmpty(args)[1])

\* the synchronous part of the file handler
fileHandler(a, fs) ==
  IF keyMissing(a.key) THEN KeyNotSet
  ELSE IF bucketMissing(a.bucket) THEN BucketNotSet
  ELSE Catch(
    CASE a.action = "upload" ->
           IF FalsyPath(a.file) THEN Throw("File path required (use --file)", <<>>)
           ELSE uploadFile(fs, a.bucket, Val(a.file), a.path, a.upsert, a.json)
      [] a.action = "download" ->
           LET actualPath == OrPath(a.path, FirstArg(a.args))
           IN IF FalsyPath(actualPath)
              THEN Throw("Remote path required (use --path or provide as argument)", <<>>)
              ELSE downloadFile(a.bucket, Val(actualPath), a.output, a.json)
      [] a.action = "list" -> listFiles(a.bucket, a.prefix, a.limit, a.search, a.json)
      [] a.action = "delete" ->
           LET paths == ArgsOrEmpty(a.args)
           IN IF Len(paths) = 0 THEN Throw("At least one path required", <<>>)
              ELSE deleteFiles(a.bucket, paths, a.json)
      [] a.action = "move" ->
           IF FalsyStr(a.from) \/ FalsyStr(a.to)
           THEN Throw("Both --from and --to required", <<>>)
           ELSE moveFile(a.bucket, Val(a.from), Val(a.to), a.json)
      [] a.action = "copy" ->
           IF FalsyStr(a.from) \/ FalsyStr(a.to)
           THEN Throw("Both --from and --to required", <<>>)
           ELSE copyFile(a.bucket, Val(a.from), Val(a.to), a.json)
      [] a.action = "info" ->
           LET actualPath == OrPath(a.path, FirstArg(a.args))
           IN IF FalsyPath(actualPath)
              THEN Throw("File path required (use --path or provide as argument)", <<>>)
              ELSE getFileInfo(a.bucket, Val(actualPath), a.json)
      [] a.action = "exists" ->
           LET actualPath == OrPath(a.path, FirstArg(a.args))
           IN IF FalsyPath(actualPath)
              THEN Throw("File path required (use --path or provide as argument)", <<>>)
              ELSE checkFileExists(a.bucket, Val(actualPath), a.json)
      [] a.action = "update" ->
           IF FalsyPath(a.file) THEN Throw("File path required (use --file)", <<>>)
           ELSE IF FalsyPath(a.path)
           THEN Throw("Remote path required (use --path to specify destination)", <<>>)
           ELSE updateFile(fs, a.bucket, Val(a.file), Val(a.path), a.upsert, a.json)
      [] OTHER -> Throw("Unknown action: ${action}", <<a.action>>))

\* ------------------------------------------------------------------------
\* file command: rendering after the await
\* ------------------------------------------------------------------------
PathData == {[path |-> "stored/path"]}
BlobData == {[size |-> 2048]}
FileEntries ==
  {[name |-> "a.txt", id |-> Some("id-a"), size |-> Some(1024), updated_at |-> Some("2024-01-20")],
   [name |-> "folder", id |-> None, size |-> None, updated_at |-> None]}
FileListData == SeqsUpTo(FileEntries, MaxData)
RemovedData == SeqsUpTo({[name |-> "a.txt"], [name |-> "b"]}, MaxData)
InfoData ==
  {[name |-> "a.txt", id |-> "id-a", bucketId |-> "test-bucket", size |-> Some(1024),
    mimetype |-> Some("text/plain"), createdAt |-> "2024-01-15", updatedAt |-> "2024-01-20",
    lastAccessedAt |-> None, cacheControl |-> Some("max-age=3600"), eTag |-> None]}

uploadFileRender(l, data) ==
  <<Line("success", "Uploaded: ${bucket}/${data.path}", <<l.bucket, data.path>>)>>
    \o JsonLines(l.asJson, data)

\* faulty variant: without --output the whole remote path is the local path
downloadOutput_remotePathWhole(l) == Val(OrPath(l.outputPath, Some(l.remotePath)))

\* const output = outputPath || path.basename(remotePath)
downloadOutput(l) == Val(OrPath(l.outputPath, Some(basename(l.remotePath))))

\* fs.writeFileSync(output, buffer) throws when output cannot be written
WriteError(output) ==
  Line("error", "EACCES: permission denied, open '${output}'", <<output>>)

downloadFileRender(l, data) ==
  <<Line("success", "Downloaded: ${output} (${formatBytes(buffer.length)})",
         <<downloadOutput(l), formatBytes(data.size)>>)>>

listFilesLine(file) ==
  <<Line("log", "  ${icon} ${file.name}${size}",
         <<IF file.id # None THEN "file" ELSE "folder", file.name,
           IF TruthyNum(file.size) THEN Some(formatBytes(Val(file.size))) ELSE None>>)>>
    \o (IF file.updated_at # None
        THEN <<Line("log", "     Updated: ${toLocaleString(file.updated_at)}",
                    <<Val(file.updated_at)>>)>>
        ELSE <<>>)

listFilesRender(l, data) ==
  IF l.asJson THEN JsonLines(TRUE, data)
  ELSE <<Line("log", "Files in ${bucket}${prefix} (${data.length})",
              <<l.bucket, IF FalsyStr(l.prefix) THEN None ELSE l.prefix, Len(data)>>)>>
         \o Flatten([i \in 1..Len(data) |-> listFilesLine(data[i])])

deleteFilesLine(file) == <<Line("log", "  ok ${file.name}", <<file.name>>)>>
\* faulty variant: the count reported is the number of paths requested
deleteFilesRender_countsRequested(l, data) ==
  <<Line("success", "Deleted ${data.length} file(s)", <<Len(calls[1].args[1])>>)>>
    \o (IF l.asJson THEN JsonLines(TRUE, data)
        ELSE Flatten([i \in 1..Len(data) |-> deleteFilesLine(data[i])]))

deleteFilesRender(l, data) ==
  <<Line("success", "Deleted ${data.length} file(s)", <<Len(data)>>)>>
    \o (IF l.asJson THEN JsonLines(TRUE, data)
        ELSE Flatten([i \in 1..Len(data) |-> deleteFilesLine(data[i])]))

moveFileRender(l, data) ==
  <<Line("success", "Moved: ${from} -> ${to}", <<l.from, l.to>>)>> \o JsonLines(l.asJson, data)

copyFileRender(l, data) ==
  <<Line("success", "Copied: ${from} -> ${to}", <<l.from, l.to>>)>> \o JsonLines(l.asJson, data)

getFileInfoRender(l, data) ==
  IF l.asJson THEN JsonLines(TRUE, data)
  ELSE <<Line("log", "File: ${data.name}", <<data.name>>),
         Line("log", "  ID:             ${data.id}", <<data.id>>),
         Line("log", "  Bucket:         ${data.bucketId}", <<data.bucketId>>),
         Line("log", "  Size:           ${formatBytes(size)}",
              <<formatBytes(IF data.size = None THEN 0 ELSE Val(data.size))>>),
         Line("log", "  Content Type:   ${mimetype}",
              <<IF FalsyStr(data.mimetype) THEN "unknown" ELSE Val(data.mimetype)>>),
         Line("log", "  Created:        ${data.createdAt}", <<data.createdAt>>),
         Line("log", "  Updated:        ${data.updatedAt}", <<data.updatedAt>>),
         Line("log", "  Last Accessed:  ${lastAccessedAt}",
              <<IF FalsyStr(data.lastAccessedAt) THEN "N/A" ELSE Val(data.lastAccessedAt)>>)>>
         \o (IF ~FalsyStr(data.cacheControl)
             THEN <<Line("log", "  Cache Control:  ${cacheControl}", <<Val(data.cacheControl)>>)>>
             ELSE <<>>)
         \o (IF ~FalsyStr(data.eTag)
             THEN <<Line("log", "  ETag:           ${eTag}", <<Val(data.eTag)>>)>>
             ELSE <<>>)

\* checkFileExists never looks at error except to print it in JSON mode
checkFileExistsRender(l, r) ==
  IF l.asJson
  THEN <<Line("log", "${json}",
              <<JSONstringify([exists |-> r.data, error |-> r.error])>>)>>
  ELSE IF r.data = Some(TRUE)
  THEN <<Line("success", "File exists: ${filePath}", <<l.filePath>>)>>
  ELSE <<Line("info", "File does not exist: ${filePath}", <<l.filePath>>)>>

updateFileRender(l, data) ==
  <<Line("success", "Updated: ${bucket}/${data.path}", <<l.bucket, data.path>>)>>
    \o JsonLines(l.asJson, data)

\* ------------------------------------------------------------------------
\* url command
\* ------------------------------------------------------------------------
\* faulty variant: if (download) drops an empty --download value
WithDownload_whenTruthy(args, download) ==
  IF download # None /\ Val(download) # [type |-> "string", s |-> ""]
  THEN Append(args, [download |-> Val(download)]) ELSE args

\* download !== undefined ? f(x, { download }) : f(x)
WithDownload(args, download) ==
  IF download # None THEN Append(args, [download |-> Val(download)]) ELSE args

\* if (download): true, or a non-empty string
TruthyDownload(download) ==
  /\ download # None
  /\ IF Val(download).type = "boolean" THEN Val(download).b ELSE Val(download).s # ""

\* getPublicUrl does not await: the client builds the URL locally
Sync(call, locals) == [kind |-> "sync", call |-> call, lines |-> <<>>, locals |-> locals]

getPublicUrl(bucket, filePath, download, asJson) ==
  Sync([op |-> "getPublicUrl", from |-> bucket, args |-> WithDownload(<<filePath>>, download)],
       [fn |-> "getPublicUrl", download |-> download, asJson |-> asJson])

\* faulty variant: the client is always asked for one hour
getSignedUrl_oneHour(bucket, filePath, expiresIn, download, asJson) ==
  Await([op |-> "createSignedUrl", from |-> bucket,
         args |-> WithDownload(<<filePath, 3600>>, download)],
        <<>>, [fn |-> "getSignedUrl", expiresIn |-> expiresIn, asJson |-> asJson])

getSignedUrl(bucket, filePath, expiresIn, download, asJson) ==
  Await([op |-> "createSignedUrl", from |-> bucket,
         args |-> WithDownload(<<filePath, expiresIn>>, download)],
        <<>>, [fn |-> "getSignedUrl", expiresIn |-> expiresIn, asJson |-> asJson])

getSignedUploadUrl(bucket, filePath, asJson) ==
  Await([op |-> "createSignedUploadUrl", from |-> bucket, args |-> <<filePath>>],
        <<>>, [fn |-> "getSignedUploadUrl", asJson |-> asJson])

getSignedUrls(bucket, filePaths, expiresIn, download, asJson) ==
  Await([op |-> "createSignedUrls", from |-> bucket,
         args |-> WithDownload(<<filePaths, expiresIn>>, download)],
        <<Line("info", "Creating signed URLs for ${filePaths.length} file(s)...",
               <<Len(filePaths)>>)>>,
        [fn |-> "getSignedUrls", expiresIn |-> expiresIn, asJson |-> asJson])
\* faulty variant: paths.push(path) puts the positional path last
signedUrlsPaths_push(path, args) ==
  ArgsOrEmpty(args) \o (IF FalsyPath(path) THEN <<>> ELSE <<Val(path)>>)

\* const paths = argv.args || []; if (path) paths.unshift(path)
signedUrlsPaths(path, args) ==
  (IF FalsyPath(path) THEN <<>> ELSE <<Val(path)>>) \o ArgsOrEmpty(args)

\* the synchronous part of the url handler
urlHandler(a) ==
  IF keyMissing(a.key) THEN KeyNotSet
  ELSE IF bucketMissing(a.bucket) THEN BucketNotSet
  ELSE Catch(
    CASE a.action = "public" ->
           IF FalsyPath(a.path) THEN Throw("Path required for public URL", <<>>)
           ELSE getPublicUrl(a.bucket, Val(a.path), a.download, a.json)
      [] a.action = "signed" ->
           IF FalsyPath(a.path) THEN Throw("Path required for signed URL", <<>>)
           ELSE getSignedUrl(a.bucket, Val(a.path), a.expires, a.download, a.json)
      [] a.action = "signed-upload" ->
           IF FalsyPath(a.path) THEN Throw("Path required for signed upload URL", <<>>)
           ELSE getSignedUploadUrl(a.bucket, Val(a.path), a.json)
      [] a.action = "signed-urls" ->
           LET paths == signedUrlsPaths(a.path, a.args)
           IN IF Len(paths) = 0
              THEN Throw("At least one path required for signed URLs", <<>>)
              ELSE getSignedUrls(a.bucket, paths, a.expires, a.download, a.json)
      [] OTHER -> Throw("Unknown action: ${action}", <<a.action>>))

PublicUrlData == {[publicUrl |-> "http://localhost:5000/storage/v1/object/public/b/p"]}
SignedUrlData == {[signedUrl |-> "http://localhost:5000/storage/v1/object/sign/b/p?token=t"]}
SignedUploadData ==
  {[path |-> "p", token |-> "t",
    signedUrl |-> "http://localhost:5000/storage/v1/object/upload/sign/b/p?token=t"]}
SignedItems ==
  {[path |-> "a.txt", error |-> None, signedUrl |-> "http://localhost:5000/sign/a.txt"],
   [path |-> "b.txt", error |-> Some("Either the object does not exist or access is denied"),
    signedUrl |-> ""]}
SignedUrlsData == SeqsUpTo(SignedItems, MaxData)

getPublicUrlRender(l, data) ==
  IF l.asJson THEN JsonLines(TRUE, data)
  ELSE <<Line("log", "Public URL:", <<>>),
         Line("log", "  ${data.publicUrl}", <<data.publicUrl>>)>>
         \o (IF TruthyDownload(l.download)
             THEN <<Line("log", "  (Download mode: ${download})",
                         <<IF Val(l.download).type = "string" THEN Val(l.download).s
                           ELSE "enabled">>)>>
             ELSE <<>>)

getSignedUrlRender(l, data) ==
  IF l.asJson THEN JsonLines(TRUE, data)
  ELSE <<Line("log", "Signed URL (expires in ${expiresIn}s):", <<l.expiresIn>>),
         Line("log", "  ${data.signedUrl}", <<data.signedUrl>>)>>

getSignedUploadUrlRender(l, data) ==
  IF l.asJson THEN JsonLines(TRUE, data)
  ELSE <<Line("log", "Signed Upload URL:", <<>>),
         Line("log", "  Path:  ${data.path}", <<data.path>>),
         Line("log", "  Token: ${data.token}", <<data.token>>),
         Line("log", "  Signed URL: ${data.signedUrl}", <<data.signedUrl>>)>>

\* if (item.error) ... else ...
itemFailed(item) == item.error # None /\ Val(item.error) # ""

getSignedUrlsLine(item) ==
  IF itemFailed(item)
  THEN <<Line("log", "  x ${item.path}: ${item.error}", <<item.path, Val(item.error)>>)>>
  ELSE <<Line("log", "  ok ${item.path}", <<item.path>>),
         Line("log", "    ${item.signedUrl}", <<item.signedUrl>>)>>
\* faulty variant: the filter is dropped and every entry counts as a success
successCount_all(data) == Len(data)

\* data.filter((item) => !item.error).length
successCount(data) == Cardinality({i \in 1..Len(data) : ~itemFailed(data[i])})

getSignedUrlsRender(l, data) ==
  IF l.asJson THEN JsonLines(TRUE, data)
  ELSE <<Line("log", "Signed URLs (expires in ${expiresIn}s):", <<l.expiresIn>>)>>
         \o Flatten([i \in 1..Len(data) |-> getSignedUrlsLine(data[i])])
         \o <<Line("success", "${successCount}/${data.length} URLs generated successfully",
                   <<successCount(data), Len(data)>>)>>

\* ------------------------------------------------------------------------
\* Steps
\* ------------------------------------------------------------------------
\* faulty variant: errors found before any client call exit with status 2
Enter_statusTwo(r) ==
  /\ pc = "start"
  /\ out' = out \o r.lines
  /\ IF r.kind = "exit"
       THEN /\ exitCalls' = Append(exitCalls, 2)
            /\ pc' = "done"
            /\ UNCHANGED <<calls, pending>>
       ELSE /\ calls' = Append(calls, r.call)
            /\ pending' = r.locals
            /\ pc' = "awaiting"
            /\ UNCHANGED exitCalls
  /\ UNCHANGED <<argv, localfs, resp, written>>

\* The handler runs from its entry to process.exit(1) or to its await.
Enter(r) ==
  /\ pc = "start"
  /\ out' = out \o r.lines
  /\ IF r.kind = "exit"
       THEN /\ exitCalls' = Append(exitCalls, 1)
            /\ pc' = "done"
            /\ UNCHANGED <<calls, pending>>
       ELSE /\ calls' = Append(calls, r.call)
            /\ pending' = r.locals
            /\ pc' = "awaiting"
            /\ UNCHANGED exitCalls
  /\ UNCHANGED <<argv, localfs, resp, written>>
\* faulty variant: the catch block prints the error and forgets process.exit(1)
Settle_noExit(r, lines) ==
  /\ resp' = Some(r)
  /\ IF errorThrown(r)
       THEN out' = Append(out, Line("error", Val(r.error), <<>>))
       ELSE out' = out \o lines
  /\ pc' = "done"
  /\ UNCHANGED <<argv, localfs, pending, calls, exitCalls>>

\* faulty variant: an operation that failed is invoked a second time
Settle_retry(r, lines) ==
  /\ resp' = Some(r)
  /\ IF errorThrown(r)
       THEN /\ out' = Append(out, Line("error", Val(r.error), <<>>))
            /\ exitCalls' = Append(exitCalls, 1)
            /\ calls' = Append(calls, calls[Len(calls)])
       ELSE /\ out' = out \o lines
            /\ UNCHANGED <<exitCalls, calls>>
  /\ pc' = "done"
  /\ UNCHANGED <<argv, localfs, pending>>

\* The awaited operation settles with r; the function either throws into the
\* handler's catch or prints lines and returns.
Settle(r, lines) ==
  /\ resp' = Some(r)
  /\ IF errorThrown(r)
       THEN /\ out' = Append(out, Line("error", Val(r.error), <<>>))
            /\ exitCalls' = Append(exitCalls, 1)
       ELSE /\ out' = out \o lines
            /\ UNCHANGED exitCalls
  /\ pc' = "done"
  /\ UNCHANGED <<argv, localfs, pending, calls>>

HandlerBucket == argv.group = "bucket" /\ pc = "start" /\ Enter(bucketHandler(argv))

listBucketsResume ==
  /\ pending.fn = "listBuckets"
  /\ pc = "awaiting"
  /\ \E r \in Responses(BucketListData) :
       Settle(r, IF errorThrown(r) THEN <<>> ELSE listBucketsRender(pending, Val(r.data)))
  /\ UNCHANGED written

createBucketResume ==
  /\ pending.fn = "createBucket"
  /\ pc = "awaiting"
  /\ \E r \in Responses(NameData) :
       Settle(r, IF errorThrown(r) THEN <<>> ELSE createBucketRender(pending, Val(r.data)))
  /\ UNCHANGED written

getBucketResume ==
  /\ pending.fn = "getBucket"
  /\ pc = "awaiting"
  /\ \E r \in Responses(BucketData) :
       Settle(r, IF errorThrown(r) THEN <<>> ELSE getBucketRender(pending, Val(r.data)))
  /\ UNCHANGED written

updateBucketResume ==
  /\ pending.fn = "updateBucket"
  /\ pc = "awaiting"
  /\ \E r \in Responses(MessageData) :
       Settle(r, IF errorThrown(r) THEN <<>> ELSE updateBucketRender(pending, Val(r.data)))
  /\ UNCHANGED written

emptyBucketResume ==
  /\ pending.fn = "emptyBucket"
  /\ pc = "awaiting"
  /\ \E r \in Responses(MessageData) :
       Settle(r, IF errorThrown(r) THEN <<>> ELSE emptyBucketRender(pending, Val(r.data)))
  /\ UNCHANGED written

deleteBucketResume ==
  /\ pending.fn = "deleteBucket"
  /\ pc = "awaiting"
  /\ \E r \in Responses(MessageData) :
       Settle(r, IF errorThrown(r) THEN <<>> ELSE deleteBucketRender(pending, Val(r.data)))
  /\ UNCHANGED written


HandlerFile == argv.group = "file" /\ pc = "start" /\ Enter(fileHandler(argv, localfs))

uploadFileResume ==
  /\ pending.fn = "uploadFile"
  /\ pc = "awaiting"
  /\ \E r \in Responses(PathData) :
       Settle(r, IF errorThrown(r) THEN <<>> ELSE uploadFileRender(pending, Val(r.data)))
  /\ UNCHANGED written

\* faulty variant: the output file is created before the response is examined
downloadFileResume_createsFileFirst ==
  /\ pending.fn = "downloadFile"
  /\ pc = "awaiting"
  /\ \E r \in Responses(BlobData) :
       /\ written' = Append(written, [path |-> downloadOutput(pending), data |-> r.data])
       /\ Settle(r, IF errorThrown(r) THEN <<>> ELSE downloadFileRender(pending, Val(r.data)))

\* after the await: write the bytes to the output path, then report; a write
\* that throws reaches the handler's catch like any other error
downloadFileResume ==
  /\ pending.fn = "downloadFile"
  /\ pc = "awaiting"
  /\ \E r \in Responses(BlobData) :
       IF errorThrown(r)
       THEN /\ Settle(r, <<>>)
            /\ UNCHANGED written
       ELSE /\ resp' = Some(r)
            /\ written' = Append(written, [path |-> downloadOutput(pending),
                                           data |-> Val(r.data)])
            /\ IF localfs.writable
                 THEN /\ out' = out \o downloadFileRender(pending, Val(r.data))
                      /\ UNCHANGED exitCalls
                 ELSE /\ out' = Append(out, WriteError(downloadOutput(pending)))
                      /\ exitCalls' = Append(exitCalls, 1)
            /\ pc' = "done"
            /\ UNCHANGED <<argv, localfs, pending, calls>>

listFilesResume ==
  /\ pending.fn = "listFiles"
  /\ pc = "awaiting"
  /\ \E r \in Responses(FileListData) :
       Settle(r, IF errorThrown(r) THEN <<>> ELSE listFilesRender(pending, Val(r.data)))
  /\ UNCHANGED written

deleteFilesResume ==
  /\ pending.fn = "deleteFiles"
  /\ pc = "awaiting"
  /\ \E r \in Responses(RemovedData) :
       Settle(r, IF errorThrown(r) THEN <<>> ELSE deleteFilesRender(pending, Val(r.data)))
  /\ UNCHANGED written

moveFileResume ==
  /\ pending.fn = "moveFile"
  /\ pc = "awaiting"
  /\ \E r \in Responses(MessageData) :
       Settle(r, IF errorThrown(r) THEN <<>> ELSE moveFileRender(pending, Val(r.data)))
  /\ UNCHANGED written

copyFileResume ==
  /\ pending.fn = "copyFile"
  /\ pc = "awaiting"
  /\ \E r \in Responses(PathData) :
       Settle(r, IF errorThrown(r) THEN <<>> ELSE copyFileRender(pending, Val(r.data)))
  /\ UNCHANGED written

getFileInfoResume ==
  /\ pending.fn = "getFileInfo"
  /\ pc = "awaiting"
  /\ \E r \in Responses(InfoData) :
       Settle(r, IF errorThrown(r) THEN <<>> ELSE getFileInfoRender(pending, Val(r.data)))
  /\ UNCHANGED written

\* { data: true|false, error: null }, { data: false, error }, or a rejection
ExistsResponses ==
  {[thrown |-> FALSE, data |-> Some(b), error |-> None] : b \in BOOLEAN}
    \cup {[thrown |-> FALSE, data |-> Some(FALSE), error |-> Some(m)] : m \in ErrorMessages}
    \cup {[thrown |-> TRUE, data |-> None, error |-> Some(m)] : m \in ThrownMessages}

\* no `if (error) throw error`: only a rejected promise reaches the catch
checkFileExistsResume ==
  /\ pending.fn = "checkFileExists"
  /\ pc = "awaiting"
  /\ \E r \in ExistsResponses :
       /\ resp' = Some(r)
       /\ IF r.thrown
            THEN /\ out' = Append(out, Line("error", Val(r.error), <<>>))
                 /\ exitCalls' = Append(exitCalls, 1)
            ELSE /\ out' = out \o checkFileExistsRender(pending, r)
                 /\ UNCHANGED exitCalls
  /\ pc' = "done"
  /\ UNCHANGED <<argv, localfs, pending, calls, written>>

updateFileResume ==
  /\ pending.fn = "updateFile"
  /\ pc = "awaiting"
  /\ \E r \in Responses(PathData) :
       Settle(r, IF errorThrown(r) THEN <<>> ELSE updateFileRender(pending, Val(r.data)))
  /\ UNCHANGED written

\* The url handler runs to process.exit(1), to its await, or (public) to its
\* end: getPublicUrl calls the client and renders without suspending.
HandlerUrl ==
  /\ argv.group = "url"
  /\ pc = "start"
  /\ LET r == urlHandler(argv)
     IN IF r.kind = "sync"
        THEN /\ pc = "start"
             /\ calls' = Append(calls, r.call)
             /\ pending' = r.locals
             /\ \E d \in PublicUrlData :
                  /\ resp' = Some([thrown |-> FALSE, data |-> Some(d), error |-> None])
                  /\ out' = out \o getPublicUrlRender(r.locals, d)
             /\ pc' = "done"
             /\ UNCHANGED <<argv, localfs, exitCalls, written>>
        ELSE Enter(r)

getSignedUrlResume ==
  /\ pending.fn = "getSignedUrl"
  /\ pc = "awaiting"
  /\ \E r \in Responses(SignedUrlData) :
       Settle(r, IF errorThrown(r) THEN <<>> ELSE getSignedUrlRender(pending, Val(r.data)))
  /\ UNCHANGED written

getSignedUploadUrlResume ==
  /\ pending.fn = "getSignedUploadUrl"
  /\ pc = "awaiting"
  /\ \E r \in Responses(SignedUploadData) :
       Settle(r, IF errorThrown(r) THEN <<>> ELSE getSignedUploadUrlRender(pending, Val(r.data)))
  /\ UNCHANGED written

getSignedUrlsResume ==
  /\ pending.fn = "getSignedUrls"
  /\ pc = "awaiting"
  /\ \E r \in Responses(SignedUrlsData) :
       Settle(r, IF errorThrown(r) THEN <<>> ELSE getSignedUrlsRender(pending, Val(r.data)))
  /\ UNCHANGED written

\* the local file exists only for the actions that read it
InitLocal(a) ==
  IF a.group = "file" /\ a.action \in {"upload", "update"} THEN LocalFiles
  ELSE IF a.group = "file" /\ a.action = "download" THEN OutputTargets
  ELSE {NoLocalFile}

Init ==
  /\ argv \in BucketArgv \cup FileArgv \cup UrlArgv
  /\ localfs \in InitLocal(argv)
  /\ pc = "start"
  /\ pending = [fn |-> "none"]
  /\ calls = <<>>
  /\ resp = None
  /\ out = <<>>
  /\ exitCalls = <<>>
  /\ written = <<>>

Next ==
  \/ HandlerBucket
  \/ listBucketsResume
  \/ createBucketResume
  \/ getBucketResume
  \/ updateBucketResume
  \/ emptyBucketResume
  \/ deleteBucketResume
  \/ HandlerFile
  \/ uploadFileResume
  \/ downloadFileResume
  \/ listFilesResume
  \/ deleteFilesResume
  \/ moveFileResume
  \/ copyFileResume
  \/ getFileInfoResume
  \/ checkFileExistsResume
  \/ updateFileResume
  \/ HandlerUrl
  \/ getSignedUrlResume
  \/ getSignedUploadUrlResume
  \/ getSignedUrlsResume

Spec == Init /\ [][Next]_vars

\* ------------------------------------------------------------------------
\* Two invocations that differ only in --json
\* ------------------------------------------------------------------------
\* Once an invocation has ended, the same command line is run again in a new
\* process with the json flag flipped, on the same local disk. What the first
\* invocation printed, its exit calls and the response it got are kept in
\* argv.twinOf so that the two can be compared.
TwinInvocation ==
  /\ pc = "done"
  /\ "twinOf" \notin DOMAIN argv
  /\ argv' = ("twinOf" :> [out |-> out, exitCalls |-> exitCalls, resp |-> resp])
               @@ [argv EXCEPT !.json = ~argv.json]
  /\ pc' = "start"
  /\ pending' = [fn |-> "none"]
  /\ calls' = <<>>
  /\ resp' = None
  /\ out' = <<>>
  /\ exitCalls' = <<>>
  /\ written' = <<>>
  /\ UNCHANGED localfs

NextTwin == Next \/ TwinInvocation

SpecTwin == Init /\ [][NextTwin]_vars

\* ------------------------------------------------------------------------
\* From the command line and the environment to the parsed argv
\* ------------------------------------------------------------------------
\* bucket list, file list <bucket> and url signed <bucket> --path, each with
\* the options its builder declares and its action reads. --url and --key as
\* typed, STORAGE_URL and STORAGE_SERVICE_KEY as exported (or loaded by
\* dotenv): absent, empty, or a value.
CommandLines ==
  LET UrlFlags == {None, Some("https://flag.example/storage/v1")}
      KeyFlags == {None, Some(""), Some("flag-key")}
      Environments ==
        [STORAGE_URL : {None, Some(""), Some("https://env.example/storage/v1")},
         STORAGE_SERVICE_KEY : {None, Some(""), Some("env-key")}]
      LimitFlags == {None, Some(5), Some(0)}
      ExpiresFlags == {None, Some(7200)}
  IN {[group |-> "bucket", action |-> "list", env |-> e,
       flags |-> [url |-> u, key |-> k, json |-> j]] :
        e \in Environments, u \in UrlFlags, k \in KeyFlags, j \in BOOLEAN}
     \cup
     {[group |-> "file", action |-> "list", bucket |-> "test-bucket", env |-> e,
       flags |-> [url |-> u, key |-> k, json |-> j, prefix |-> p, limit |-> n,
                  search |-> s]] :
        e \in Environments, u \in UrlFlags, k \in KeyFlags, j \in BOOLEAN,
        p \in OptPrefix, n \in LimitFlags, s \in OptSearch}
     \cup
     {[group |-> "url", action |-> "signed", bucket |-> "test-bucket", env |-> e,
       flags |-> [url |-> u, key |-> k, json |-> j, path |-> Some(RemoteP),
                  expires |-> x]] :
        e \in Environments, u \in UrlFlags, k \in KeyFlags, j \in BOOLEAN,
        x \in ExpiresFlags}

\* faulty variant: the environment is not consulted
urlDefault_ignoresEnv(env) == "http://localhost:5000/storage/v1"

\* default: process.env.STORAGE_URL || 'http://localhost:5000/storage/v1'
urlDefault(env) ==
  IF FalsyStr(env.STORAGE_URL) THEN "http://localhost:5000/storage/v1"
  ELSE Val(env.STORAGE_URL)

\* default: process.env.STORAGE_SERVICE_KEY || ''
keyDefault(env) ==
  IF FalsyStr(env.STORAGE_SERVICE_KEY) THEN "" ELSE Val(env.STORAGE_SERVICE_KEY)

\* faulty variant: a declared default overrides the command line
optionValue_defaultWins(flag, default) == default

\* yargs: an option has the value given on the command line, else its default
optionValue(flag, default) == IF flag = None THEN default ELSE Val(flag)

\* the argv yargs hands to the handler; the command line and the environment
\* it was made from stay attached as argv.flags and argv.env
builder(c) ==
  LET url == optionValue(c.flags.url, urlDefault(c.env))
      key == optionValue(c.flags.key, keyDefault(c.env))
      parsed ==
        CASE c.group = "bucket" ->
               [group |-> "bucket", action |-> c.action, name |-> None, key |-> key,
                json |-> c.flags.json, public |-> None]
          [] c.group = "file" ->
               [FileDefaults(c.action, c.bucket, key, c.flags.json)
                  EXCEPT !.prefix = c.flags.prefix,
                         !.limit = optionValue(c.flags.limit, limitDefault),
                         !.search = c.flags.search]
          [] OTHER ->
               [UrlDefaults(c.action, c.bucket, key, c.flags.json)
                  EXCEPT !.path = c.flags.path,
                         !.expires = optionValue(c.flags.expires, expiresDefault)]
  IN parsed @@ [url |-> url, flags |-> c.flags, env |-> c.env]

Parse ==
  /\ pc = "parse"
  /\ argv' = builder(argv)
  /\ pc' = "start"
  /\ UNCHANGED <<localfs, pending, calls, resp, out, exitCalls, written>>

InitParse ==
  /\ argv \in CommandLines
  /\ localfs = NoLocalFile
  /\ pc = "parse"
  /\ pending = [fn |-> "none"]
  /\ calls = <<>>
  /\ resp = None
  /\ out = <<>>
  /\ exitCalls = <<>>
  /\ written = <<>>

NextParse ==
  \/ Parse
  \/ HandlerBucket
  \/ listBucketsResume
  \/ HandlerFile
  \/ listFilesResume
  \/ HandlerUrl
  \/ getSignedUrlResume

SpecParse == InitParse /\ [][NextParse]_vars

\* ------------------------------------------------------------------------
\* The two pure functions of utils.ts, applied to an argument
\* ------------------------------------------------------------------------
\* argv is the call: [fn, bytes] or [fn, filename]; out receives the value
\* returned. Byte counts are drawn digit by digit, leaving out the counts
\* within 1024 of 1024^5, and joined by counts whose product with 100 is
\* not a double; file names are a stem (plain, in a directory, with an inner
\* dot, empty, in a directory whose name has an extension) and an ending.
InitUtil ==
  LET ByteCounts ==
        {d \in [1..5 -> {0, 1, 2, 500, 512, 1023}] :
           \E j \in 2..5 : d[j] # 1023}
          \cup {<<983, 40, 983, 424, 655>>, <<983, 40, 983, 168, 900>>}
      ext == <<<<".", "j", "p", "g">>, <<".", "j", "p", "e", "g">>, <<".", "p", "n", "g">>,
               <<".", "g", "i", "f">>, <<".", "w", "e", "b", "p">>, <<".", "p", "d", "f">>,
               <<".", "j", "s", "o", "n">>, <<".", "t", "x", "t">>, <<".", "m", "p", "4">>,
               <<".", "m", "p", "3">>,
               <<".", "J", "P", "G">>, <<".", "J", "P", "E", "G">>, <<".", "P", "N", "G">>,
               <<".", "G", "I", "F">>, <<".", "W", "E", "B", "P">>, <<".", "P", "D", "F">>,
               <<".", "J", "S", "O", "N">>, <<".", "T", "X", "T">>, <<".", "M", "P", "4">>,
               <<".", "M", "P", "3">>,
               <<".", "J", "p", "g">>, <<".", "p", "N", "g">>, <<".", "t", "x", "T">>,
               <<".", "z", "i", "p">>, <<".", "p", "n">>, <<".", "p", "n", "g", "s">>,
               <<".">>, <<>>, <<"p", "n", "g">>, <<".", "p", "n", "g", "/">>>>
      stem == <<<<"a">>, <<"d", "/", "a">>, <<"a", ".", "b">>, <<>>,
                <<"d", ".", "p", "n", "g", "/", "a">>>>
      FileNames == {stem[i] \o ext[j] : i \in 1..Len(stem), j \in 1..Len(ext)}
  IN /\ argv \in {[fn |-> "formatBytes", bytes |-> d] : d \in ByteCounts}
                  \cup {[fn |-> "getContentType", filename |-> f] : f \in FileNames}
     /\ localfs = NoLocalFile
     /\ pc = "start"
     /\ pending = [fn |-> "none"]
     /\ calls = <<>>
     /\ resp = None
     /\ out = <<>>
     /\ exitCalls = <<>>
     /\ written = <<>>

formatBytesCall ==
  /\ pc = "start"
  /\ argv.fn = "formatBytes"
  /\ out' = <<formatBytes1024(argv.bytes)>>
  /\ pc' = "done"
  /\ UNCHANGED <<argv, localfs, pending, calls, resp, exitCalls, written>>

getContentTypeCall ==
  /\ pc = "start"
  /\ argv.fn = "getContentType"
  /\ out' = <<getContentType(argv.filename)>>
  /\ pc' = "done"
  /\ UNCHANGED <<argv, localfs, pending, calls, resp, exitCalls, written>>

NextUtil == formatBytesCall \/ getContentTypeCall

SpecUtil == InitUtil /\ [][NextUtil]_vars

\* ------------------------------------------------------------------------
\* Vocabulary of the properties
\* ------------------------------------------------------------------------
AbsentStr(o) == o \in {None, Some("")}
AbsentPath(o) == o \in {None, Some(<<>>)}
\* no --path and no usable first positional argument
NoRemotePath(a) ==
  /\ AbsentPath(a.path)
  /\ \/ a.args \in {None, Some(<<>>)}
     \/ Val(a.args)[1] = <<>>

ErrorLine(text) == [ch |-> "error", text |-> text, args |-> <<>>]

\* the invocation ended in process.exit(1) having printed exactly this error
FailedWith(text) == out = <<ErrorLine(text)>> /\ exitCalls = <<1>>

\* nothing was asked of the storage client, and nothing is in flight
NoClientOperation == calls = <<>> /\ pc # "awaiting" /\ resp = None

\* the message the handler owes for the first required argument that is
\* missing, None when every required argument of the action is there
MissingArgument(a) ==
  CASE a.group = "bucket" ->
         IF a.action \in {"create", "get", "update", "empty", "delete"} /\ AbsentStr(a.name)
         THEN Some("Bucket name required")
         ELSE IF a.action = "update" /\ a.public = None
         THEN Some("--public flag required for update")
         ELSE None
    [] a.group = "file" /\ a.action \in FileActions ->
         IF a.bucket = "" THEN Some("Bucket name required")
         ELSE IF a.action \in {"upload", "update"} /\ AbsentPath(a.file)
         THEN Some("File path required (use --file)")
         ELSE IF a.action = "update" /\ AbsentPath(a.path)
         THEN Some("Remote path required (use --path to specify destination)")
         ELSE IF a.action = "download" /\ NoRemotePath(a)
         THEN Some("Remote path required (use --path or provide as argument)")
         ELSE IF a.action \in {"info", "exists"} /\ NoRemotePath(a)
         THEN Some("File path required (use --path or provide as argument)")
         ELSE IF a.action = "delete" /\ a.args \in {None, Some(<<>>)}
         THEN Some("At least one path required")
         ELSE IF a.action \in {"move", "copy"} /\ (AbsentStr(a.from) \/ AbsentStr(a.to))
         THEN Some("Both --from and --to required")
         ELSE None
    [] a.group = "url" /\ a.action \in UrlActions ->
         IF a.bucket = "" THEN Some("Bucket name required")
         ELSE IF a.action = "public" /\ AbsentPath(a.path)
         THEN Some("Path required for public URL")
         ELSE IF a.action = "signed" /\ AbsentPath(a.path)
         THEN Some("Path required for signed URL")
         ELSE IF a.action = "signed-upload" /\ AbsentPath(a.path)
         THEN Some("Path required for signed upload URL")
         ELSE IF a.action = "signed-urls" /\ AbsentPath(a.path)
                 /\ a.args \in {None, Some(<<>>)}
         THEN Some("At least one path required for signed URLs")
         ELSE None
    [] OTHER -> None

\* key set and every required argument present
PassesValidation(a) ==
  /\ a.key # ""
  /\ a.action \in (CASE a.group = "bucket" -> BucketActions
                     [] a.group = "file" -> FileActions
                     [] OTHER -> UrlActions)
  /\ MissingArgument(a) = None

\* ------------------------------------------------------------------------
\* C1: with an empty key every handler prints 'Storage key not set' on the
\* error channel and the guidance on the info channel, calls process.exit(1),
\* and no storage-client operation is invoked in that invocation.
\* ------------------------------------------------------------------------
C1_KeyNotSetFailsFast ==
  argv.key = "" =>
    /\ NoClientOperation
    /\ pc = "done" =>
         /\ out = <<ErrorLine("Storage key not set"),
                    [ch |-> "info", text |-> "Set STORAGE_SERVICE_KEY or use --key option",
                     args |-> <<>>]>>
         /\ exitCalls = <<1>>

C1_Witness ==
  /\ argv.key = ""
  /\ argv.group = "file"
  /\ argv.action = "upload"
  /\ argv.bucket = ""
  /\ pc = "done"
  /\ exitCalls = <<1>>

\* ------------------------------------------------------------------------
\* C2: for every supported action, a missing required argument (bucket name,
\* --file, remote path, --from/--to, path list, --public for bucket update)
\* makes the handler print the message naming it, exit with status 1, and
\* perform no storage-client operation.
\* ------------------------------------------------------------------------
C2_MissingArgumentRejected ==
  (argv.key # "" /\ MissingArgument(argv) # None) =>
    /\ NoClientOperation
    /\ pc = "done" => FailedWith(Val(MissingArgument(argv)))

C2_Witness ==
  /\ argv.key # ""
  /\ argv.group = "file"
  /\ argv.action = "move"
  /\ argv.from = Some("old.txt")
  /\ argv.to = None
  /\ pc = "done"
  /\ FailedWith("Both --from and --to required")

\* ------------------------------------------------------------------------
\* C3 (as stated): whenever the client's response carries a non-null error,
\* the handler prints that error's message on the error channel and exits
\* with status 1, and reports no normal result.
\* ------------------------------------------------------------------------
\* the operation resolved (the promise was not rejected) with an error
ResolvedWithError == resp # None /\ ~Val(resp).thrown /\ Val(resp).error # None

\* the error message is the last line printed, process.exit(1) was called,
\* and nothing was printed as a result (only progress lines on "info")
ErrorReported ==
  /\ exitCalls = <<1>>
  /\ Len(out) > 0
  /\ out[Len(out)] = ErrorLine(Val(Val(resp).error))
  /\ \A i \in 1..(Len(out) - 1) : out[i].ch = "info"

C3_EveryClientErrorExits == (pc = "done" /\ ResolvedWithError) => ErrorReported

\* ------------------------------------------------------------------------
\* C3 (amended): the above holds for every action except file exists; file
\* exists does not treat the response's error as a failure: it ends without
\* calling process.exit and prints 'File does not exist: <path>' on the info
\* channel (text mode) or the JSON object {exists, error} on the log channel.
\* ------------------------------------------------------------------------
IsFileExists == argv.group = "file" /\ argv.action = "exists"

C3_ClientErrorExitsExceptExists ==
  (pc = "done" /\ ResolvedWithError) =>
    IF IsFileExists
    THEN /\ exitCalls = <<>>
         /\ Len(out) = 1
         /\ IF argv.json
            THEN out[1].ch = "log"
                 /\ out[1].args = <<[json |-> [exists |-> Val(resp).data,
                                               error |-> Val(resp).error],
                                     indent |-> 2]>>
            ELSE out[1].ch = "info" /\ out[1].text = "File does not exist: ${filePath}"
    ELSE ErrorReported

C3_Witness ==
  /\ pc = "done"
  /\ ResolvedWithError
  /\ argv.group = "file"
  /\ argv.action = "delete"
  /\ Len(out) = 2
  /\ exitCalls = <<1>>

\* ------------------------------------------------------------------------
\* C4 (as stated): each mutating action that passes validation invokes
\* exactly one storage-client operation, and none after it returned.
\* ------------------------------------------------------------------------
Mutating(a) ==
  \/ a.group = "bucket" /\ a.action \in {"create", "update", "empty", "delete"}
  \/ a.group = "file" /\ a.action \in {"upload", "update", "delete", "move", "copy"}

\* the client operation each mutating action is for
MutatingOp(a) ==
  IF a.group = "bucket"
  THEN CASE a.action = "create" -> "createBucket" [] a.action = "update" -> "updateBucket"
         [] a.action = "empty" -> "emptyBucket" [] OTHER -> "deleteBucket"
  ELSE CASE a.action = "upload" -> "upload" [] a.action = "update" -> "update"
         [] a.action = "delete" -> "remove" [] a.action = "move" -> "move"
         [] OTHER -> "copy"

C4_ExactlyOneOperation ==
  (Mutating(argv) /\ PassesValidation(argv) /\ pc # "start") =>
    /\ Len(calls) = 1
    /\ calls[1].op = MutatingOp(argv)

\* ------------------------------------------------------------------------
\* C4 (amended): each mutating action that passes validation invokes at most
\* one storage-client operation: exactly one, unless it is file upload or
\* update and reading the local source file fails, in which case none; after
\* the operation returned, with data or with an error, none is invoked.
\* ------------------------------------------------------------------------
LocalReadFails == argv.group = "file" /\ argv.action \in {"upload", "update"}
                    /\ ~localfs.readable

C4_OneOperationUnlessReadFails ==
  (Mutating(argv) /\ PassesValidation(argv) /\ pc # "start") =>
    IF LocalReadFails
    THEN calls = <<>> /\ pc = "done" /\ exitCalls = <<1>>
    ELSE /\ Len(calls) = 1
         /\ calls[1].op = MutatingOp(argv)
         /\ pc = "done" => resp # None

C4_Witness ==
  /\ Mutating(argv)
  /\ PassesValidation(argv)
  /\ argv.action = "move"
  /\ pc = "done"
  /\ ResolvedWithError
  /\ Len(calls) = 1

\* ------------------------------------------------------------------------
\* C5 (as stated): for file upload and file update alike, a missing --file
\* is an error, and with --path omitted the remote destination passed to
\* the client is the base name of the local source file.
\* ------------------------------------------------------------------------
UploadOrUpdate ==
  /\ argv.group = "file"
  /\ argv.action \in {"upload", "update"}
  /\ argv.key # ""
  /\ argv.bucket # ""

\* d/a.TXT, the local source of the model, has the base name a.TXT
LocalFileBaseName == <<"a", ".", "T", "X", "T">>

MissingFileIsError ==
  (UploadOrUpdate /\ AbsentPath(argv.file)) =>
    /\ NoClientOperation
    /\ pc = "done" => FailedWith("File path required (use --file)")

C5_DestinationDefaultsToBaseName ==
  /\ MissingFileIsError
  /\ (UploadOrUpdate /\ argv.file = Some(LocalFile) /\ argv.path = None
        /\ localfs.readable /\ pc # "start") =>
       /\ Len(calls) = 1
       /\ calls[1].args[1] = LocalFileBaseName

\* ------------------------------------------------------------------------
\* C5 (amended): for file upload and file update a missing --file is an
\* error; for upload, with --path omitted the remote destination passed to
\* the client is the base name of the local source file; for update an
\* omitted --path is an error ('Remote path required (use --path to specify
\* destination)', exit status 1, no client operation), and the destination
\* is the --path supplied.
\* ------------------------------------------------------------------------
C5_UploadDefaultsUpdateRequiresPath ==
  /\ MissingFileIsError
  /\ (UploadOrUpdate /\ argv.file = Some(LocalFile) /\ localfs.readable /\ pc # "start") =>
       IF argv.action = "upload"
       THEN /\ Len(calls) = 1
            /\ calls[1].op = "upload"
            /\ calls[1].args[1] = IF AbsentPath(argv.path) THEN LocalFileBaseName
                                  ELSE Val(argv.path)
       ELSE IF AbsentPath(argv.path)
       THEN /\ NoClientOperation
            /\ FailedWith("Remote path required (use --path to specify destination)")
       ELSE /\ Len(calls) = 1
            /\ calls[1].op = "update"
            /\ calls[1].args[1] = Val(argv.path)

C5_Witness ==
  /\ UploadOrUpdate
  /\ argv.action = "upload"
  /\ argv.file = Some(LocalFile)
  /\ argv.path = None
  /\ pc = "done"
  /\ Len(calls) = 1
  /\ calls[1].args[1] = LocalFileBaseName

\* ------------------------------------------------------------------------
\* C6: bucket update without the public flag fails with '--public flag
\* required for update' and exit status 1 without calling updateBucket; with
\* the flag supplied, true or false, updateBucket is called once with
\* {public: <that value>}.
\* ------------------------------------------------------------------------
BucketUpdate ==
  /\ argv.group = "bucket"
  /\ argv.action = "update"
  /\ argv.key # ""
  /\ ~AbsentStr(argv.name)

C6_UpdateRequiresPublicFlag ==
  BucketUpdate =>
    IF argv.public = None
    THEN /\ NoClientOperation
         /\ pc = "done" => FailedWith("--public flag required for update")
    ELSE pc # "start" =>
           calls = <<[op |-> "updateBucket",
                      args |-> <<Val(argv.name), [public |-> Val(argv.public)]>>]>>

C6_Witness ==
  /\ BucketUpdate
  /\ argv.public = Some(FALSE)
  /\ pc = "done"
  /\ Len(calls) = 1
  /\ calls[1].args[2] = [public |-> FALSE]
  /\ exitCalls = <<>>

\* ------------------------------------------------------------------------
\* C7: bucket create without the public flag calls createBucket with
\* {public: false}; with the flag supplied it passes the value unchanged.
\* ------------------------------------------------------------------------
BucketCreate ==
  /\ argv.group = "bucket"
  /\ argv.action = "create"
  /\ argv.key # ""
  /\ ~AbsentStr(argv.name)

C7_CreateDefaultsToPrivate ==
  (BucketCreate /\ pc # "start") =>
    calls = <<[op |-> "createBucket",
               args |-> <<Val(argv.name),
                          [public |-> IF argv.public = None THEN FALSE
                                      ELSE Val(argv.public)]>>]>>

C7_Witness ==
  /\ BucketCreate
  /\ argv.public = None
  /\ pc = "done"
  /\ Len(calls) = 1
  /\ calls[1].args[2] = [public |-> FALSE]
  /\ exitCalls = <<>>

\* ------------------------------------------------------------------------
\* C8: file delete with a non-empty list of paths issues exactly one remove
\* call whose argument is the whole list in the order given, and the success
\* count reported is the number of entries in the data the client returned,
\* not the number of paths requested.
\* ------------------------------------------------------------------------
FileDelete ==
  /\ argv.group = "file"
  /\ argv.action = "delete"
  /\ argv.key # ""
  /\ argv.bucket # ""
  /\ argv.args \notin {None, Some(<<>>)}

\* the operation resolved with data and no error
ResolvedWithData == resp # None /\ ~Val(resp).thrown /\ Val(resp).error = None

C8_DeleteOneRemoveCountsReturned ==
  (FileDelete /\ pc # "start") =>
    /\ calls = <<[op |-> "remove", from |-> argv.bucket, args |-> <<Val(argv.args)>>]>>
    /\ (pc = "done" /\ ResolvedWithData) =>
         /\ Len(out) >= 2
         /\ out[2] = [ch |-> "success", text |-> "Deleted ${data.length} file(s)",
                      args |-> <<Len(Val(Val(resp).data))>>]
         /\ \A i \in 1..Len(out) : i # 2 => out[i].ch # "success"

C8_Witness ==
  /\ FileDelete
  /\ pc = "done"
  /\ ResolvedWithData
  /\ Val(argv.args) = <<ArgB, ArgA>>
  /\ Len(Val(Val(resp).data)) = 1

\* ------------------------------------------------------------------------
\* C9: url signed-urls issues exactly one createSignedUrls call whose path
\* list is the positional path (if present) followed by the remaining
\* positional args in their order, with the given expiry; with no path and
\* no args it fails with 'At least one path required for signed URLs' and
\* exit status 1 without calling the client.
\* ------------------------------------------------------------------------
UrlSignedUrls ==
  /\ argv.group = "url"
  /\ argv.action = "signed-urls"
  /\ argv.key # ""
  /\ argv.bucket # ""

RequestedPaths ==
  (IF AbsentPath(argv.path) THEN <<>> ELSE <<Val(argv.path)>>)
    \o (IF argv.args = None THEN <<>> ELSE Val(argv.args))

C9_SignedUrlsOneCallAllPaths ==
  UrlSignedUrls =>
    IF RequestedPaths = <<>>
    THEN /\ NoClientOperation
         /\ pc = "done" => FailedWith("At least one path required for signed URLs")
    ELSE pc # "start" =>
           /\ Len(calls) = 1
           /\ calls[1].op = "createSignedUrls"
           /\ calls[1].from = argv.bucket
           /\ calls[1].args[1] = RequestedPaths
           /\ calls[1].args[2] = argv.expires

C9_Witness ==
  /\ UrlSignedUrls
  /\ argv.path = Some(RemoteP)
  /\ argv.args = Some(<<ArgA, ArgB>>)
  /\ argv.expires = 7200
  /\ pc = "done"
  /\ calls[1].args[1] = <<RemoteP, ArgA, ArgB>>

\* ------------------------------------------------------------------------
\* C10: in text mode url signed-urls prints one marker per entry the client
\* returned, in order (failure marker with path and error when the entry has
\* an error, success marker with path and URL otherwise), and after these a
\* tally 'k/n URLs generated successfully', n the number of entries returned
\* and k the number of entries without an error, so 0 <= k <= n.
\* ------------------------------------------------------------------------
IsMarker(line) == line.text \in {"  ok ${item.path}", "  x ${item.path}: ${item.error}"}
Markers == SelectSeq(out, IsMarker)
IsUrlLine(line) == line.text = "    ${item.signedUrl}"
UrlLines == SelectSeq(out, IsUrlLine)

\* entries without an error, in order
RECURSIVE Succeeded(_)
Succeeded(data) ==
  IF data = <<>> THEN <<>>
  ELSE (IF Head(data).error = None THEN <<Head(data)>> ELSE <<>>) \o Succeeded(Tail(data))

C10_SignedUrlsMarkersAndTally ==
  (UrlSignedUrls /\ ~argv.json /\ pc = "done" /\ ResolvedWithData) =>
    LET data == Val(Val(resp).data)
        n == Len(data)
        k == Len(Succeeded(data))
    IN /\ Len(Markers) = n
       /\ \A i \in 1..n :
            Markers[i] = IF data[i].error = None
                         THEN [ch |-> "log", text |-> "  ok ${item.path}",
                               args |-> <<data[i].path>>]
                         ELSE [ch |-> "log", text |-> "  x ${item.path}: ${item.error}",
                               args |-> <<data[i].path, Val(data[i].error)>>]
       /\ Len(UrlLines) = k
       /\ \A i \in 1..k : UrlLines[i].args = <<Succeeded(data)[i].signedUrl>>
       /\ out[Len(out)] = [ch |-> "success",
                           text |-> "${successCount}/${data.length} URLs generated successfully",
                           args |-> <<k, n>>]
       /\ 0 <= k /\ k <= n
       /\ exitCalls = <<>>

C10_Witness ==
  /\ UrlSignedUrls
  /\ ~argv.json
  /\ pc = "done"
  /\ ResolvedWithData
  /\ Len(Val(Val(resp).data)) = 2
  /\ Val(Val(resp).data)[1].error # None
  /\ Val(Val(resp).data)[2].error = None
  /\ out[Len(out)].args = <<1, 2>>

\* ------------------------------------------------------------------------
\* C11 (as stated): every action of every command group supports JSON
\* output: whenever the json flag is set and the action succeeds, the value
\* the client returned is printed as JSON on the normal channel.
\* bucket empty, bucket delete and file download never print it.
\* ------------------------------------------------------------------------
ActionSucceeded == pc = "done" /\ ResolvedWithData /\ exitCalls = <<>>

\* file exists prints its result inside an object, which is taken as printing it
ResultPrintedAsJson ==
  \E i \in 1..Len(out) :
    /\ out[i].ch = "log"
    /\ out[i].text = "${json}"
    /\ out[i].args[1].indent = 2
    /\ IF IsFileExists THEN out[i].args[1].json.exists = Val(resp).data
       ELSE out[i].args[1].json = Val(Val(resp).data)

C11_EveryActionPrintsJson == (argv.json /\ ActionSucceeded) => ResultPrintedAsJson

\* ------------------------------------------------------------------------
\* C12: bucket list, the client returning N bucket descriptors. In JSON mode
\* the output is exactly the JSON serialization (2-space indent) of the
\* returned list. In text mode the output has, for each of the N buckets in
\* the returned order, one line with its visibility marker (public when
\* bucket.public is true, private otherwise) and its name.
\* ------------------------------------------------------------------------
BucketListReturned ==
  /\ argv.group = "bucket"
  /\ argv.action = "list"
  /\ pc = "done"
  /\ ResolvedWithData

IsBucketLine(l) == l.text = "  ${visibility}  ${bucket.name}"
BucketLines == SelectSeq(out, IsBucketLine)

C12_BucketListOutput ==
  BucketListReturned =>
    LET data == Val(Val(resp).data)
    IN /\ exitCalls = <<>>
       /\ IF argv.json
          THEN out = <<[ch |-> "log", text |-> "${json}",
                        args |-> <<[json |-> data, indent |-> 2]>>]>>
          ELSE /\ Len(BucketLines) = Len(data)
               /\ \A i \in 1..Len(data) :
                    /\ BucketLines[i].ch = "log"
                    /\ BucketLines[i].args =
                         <<IF data[i].public THEN "Public" ELSE "Private", data[i].name>>

C12_Witness ==
  /\ BucketListReturned
  /\ ~argv.json
  /\ Len(Val(Val(resp).data)) = 2
  /\ Val(Val(resp).data)[1].public
  /\ ~Val(Val(resp).data)[2].public
  /\ Len(BucketLines) = 2
  /\ BucketLines[2].args = <<"Private", "documents">>

\* ------------------------------------------------------------------------
\* C13: two invocations that differ only in the json flag, that get the same
\* response from the client and that end in an error (missing credential,
\* argument error or client error) print the same lines on the error channel
\* and make the same process.exit calls: the json flag never suppresses,
\* reroutes or reformats an error.
\* ------------------------------------------------------------------------
IsErrorLine(l) == l.ch = "error"
ErrorChannel(lines) == SelectSeq(lines, IsErrorLine)

\* the invocation exited, or its client operation failed
EndedInError(exits, response) ==
  \/ exits # <<>>
  \/ /\ response # None
     /\ Val(response).thrown \/ Val(response).error # None

\* the second invocation has ended and met the same response as the first
TwinsEnded ==
  /\ "twinOf" \in DOMAIN argv
  /\ pc = "done"
  /\ resp = argv.twinOf.resp

C13_JsonFlagLeavesErrorsAlone ==
  (/\ TwinsEnded
   /\ EndedInError(exitCalls, resp) \/ EndedInError(argv.twinOf.exitCalls, argv.twinOf.resp)) =>
    /\ ErrorChannel(out) = ErrorChannel(argv.twinOf.out)
    /\ exitCalls = argv.twinOf.exitCalls

C13_Witness ==
  /\ TwinsEnded
  /\ argv.json
  /\ argv.group = "file"
  /\ argv.action = "move"
  /\ argv.from = None
  /\ argv.key # ""
  /\ argv.bucket # ""
  /\ exitCalls = <<1>>
  /\ ErrorChannel(out) = <<ErrorLine("Both --from and --to required")>>
  /\ ErrorChannel(argv.twinOf.out) = <<ErrorLine("Both --from and --to required")>>

\* ------------------------------------------------------------------------
\* C14: in all three command groups the resolved endpoint is the --url flag
\* when supplied, else STORAGE_URL when set (to a non-empty value), else
\* 'http://localhost:5000/storage/v1'; the resolved credential is the --key
\* flag when supplied, else STORAGE_SERVICE_KEY when set, else empty, and an
\* empty credential is treated as absent: 'Storage key not set', exit 1, no
\* client operation.
\* ------------------------------------------------------------------------
EnvSet(v) == v \notin {None, Some("")}

ExpectedEndpoint ==
  IF argv.flags.url # None THEN argv.flags.url[1]
  ELSE IF EnvSet(argv.env.STORAGE_URL) THEN argv.env.STORAGE_URL[1]
  ELSE "http://localhost:5000/storage/v1"

ExpectedCredential ==
  IF argv.flags.key # None THEN argv.flags.key[1]
  ELSE IF EnvSet(argv.env.STORAGE_SERVICE_KEY) THEN argv.env.STORAGE_SERVICE_KEY[1]
  ELSE ""

C14_FlagThenEnvironmentThenDefault ==
  pc # "parse" =>
    /\ argv.url = ExpectedEndpoint
    /\ argv.key = ExpectedCredential
    /\ ExpectedCredential = "" =>
         /\ NoClientOperation
         /\ pc = "done" =>
              /\ ErrorChannel(out) = <<ErrorLine("Storage key not set")>>
              /\ exitCalls = <<1>>
    /\ (ExpectedCredential # "" /\ pc = "done") => Len(calls) = 1

C14_Witness ==
  /\ pc = "awaiting"
  /\ argv.group = "url"
  /\ argv.flags.url = None
  /\ argv.env.STORAGE_URL = Some("https://env.example/storage/v1")
  /\ argv.url = "https://env.example/storage/v1"
  /\ argv.flags.key = Some("flag-key")
  /\ argv.env.STORAGE_SERVICE_KEY = Some("env-key")
  /\ argv.key = "flag-key"

\* ------------------------------------------------------------------------
\* C15: in every command group an action token outside the group's
\* enumerated set is rejected: the handler prints 'Unknown action: <token>'
\* on the error channel, exits with status 1, and invokes no storage-client
\* operation. (The key, and in file and url the bucket, are checked first.)
\* ------------------------------------------------------------------------
EnumeratedActions ==
  CASE argv.group = "bucket" -> {"list", "create", "get", "update", "empty", "delete"}
    [] argv.group = "file" -> {"upload", "download", "list", "delete", "move", "copy",
                               "info", "exists", "update"}
    [] argv.group = "url" -> {"public", "signed", "signed-upload", "signed-urls"}

ReachesTheSwitch ==
  /\ argv.key # ""
  /\ argv.group \in {"file", "url"} => argv.bucket # ""

C15_UnknownActionRejected ==
  (ReachesTheSwitch /\ argv.action \notin EnumeratedActions) =>
    /\ NoClientOperation
    /\ pc = "done" =>
         /\ out = <<[ch |-> "error", text |-> "Unknown action: ${action}",
                     args |-> <<argv.action>>]>>
         /\ exitCalls = <<1>>

C15_Witness ==
  /\ ReachesTheSwitch
  /\ argv.group = "url"
  /\ argv.action = "unknown"
  /\ pc = "done"
  /\ exitCalls = <<1>>
  /\ out[1].args = <<"unknown">>

\* ------------------------------------------------------------------------
\* C16 (as stated): the exit status depends only on success or failure:
\* every exit performed by a handler uses status 1 whatever the error class,
\* and an invocation whose validation passes and whose client call returns
\* no error completes without calling process.exit.
\* A download whose local write fails exits with status 1 although the
\* client returned the file.
\* ------------------------------------------------------------------------
EveryExitIsOne == \A i \in 1..Len(exitCalls) : exitCalls[i] = 1

ValidAndReturned == PassesValidation(argv) /\ pc = "done" /\ ResolvedWithData

C16_ExitOnlyOnFailure ==
  /\ EveryExitIsOne
  /\ ValidAndReturned => exitCalls = <<>>

\* ------------------------------------------------------------------------
\* C16 (amended): every exit performed by a handler uses status 1 whatever
\* the error class, and process.exit is called at most once; an invocation
\* whose validation passes and whose client call returns no error completes
\* without calling process.exit, except file download when writing the
\* output file fails: then the write error is printed on the error channel
\* and the handler exits with status 1.
\* ------------------------------------------------------------------------
DownloadWriteFails ==
  /\ argv.group = "file"
  /\ argv.action = "download"
  /\ ~localfs.writable

C16_ExitOneOrNoExit ==
  /\ EveryExitIsOne
  /\ Len(exitCalls) <= 1
  /\ ValidAndReturned =>
       IF DownloadWriteFails
       THEN /\ exitCalls = <<1>>
            /\ out[Len(out)].ch = "error"
       ELSE /\ exitCalls = <<>>
            /\ ErrorChannel(out) = <<>>

C16_Witness ==
  /\ ValidAndReturned
  /\ argv.group = "file"
  /\ argv.action = "download"
  /\ localfs.writable
  /\ exitCalls = <<>>
  /\ Len(written) = 1

\* ------------------------------------------------------------------------
\* C17: file list issues exactly one list call, on the named bucket, with
\* arguments (prefix, or the empty string when no prefix is given;
\* {limit, search}), where limit is the supplied value or 100 when omitted
\* and search is the supplied term or undefined; the bucket name is the only
\* required argument.
\* ------------------------------------------------------------------------
FileListEntered ==
  /\ argv.group = "file"
  /\ argv.action = "list"
  /\ pc \in {"awaiting", "done"}
  /\ argv.key # ""

C17_ListCallArguments ==
  FileListEntered =>
    /\ calls = <<[op |-> "list", from |-> argv.bucket,
                  args |-> <<IF argv.flags.prefix = None THEN ""
                             ELSE argv.flags.prefix[1],
                             [limit |-> IF argv.flags.limit = None THEN 100
                                        ELSE argv.flags.limit[1],
                              search |-> argv.flags.search]>>]>>
    /\ pc = "awaiting" => exitCalls = <<>> /\ ErrorChannel(out) = <<>>

C17_Witness ==
  /\ FileListEntered
  /\ pc = "done"
  /\ argv.flags.prefix = None
  /\ argv.flags.limit = None
  /\ argv.flags.search = None
  /\ ResolvedWithData
  /\ calls[1].args = <<"", [limit |-> 100, search |-> None]>>

\* ------------------------------------------------------------------------
\* C18: url signed passes the expiry to createSignedUrl unchanged: the
\* supplied --expires value when given, 3600 when omitted; the same expiry
\* value is the one shown in the text-mode header.
\* ------------------------------------------------------------------------
UrlSignedEntered ==
  /\ argv.group = "url"
  /\ argv.action = "signed"
  /\ pc \in {"awaiting", "done"}
  /\ argv.key # ""

ExpectedExpiry == IF argv.flags.expires = None THEN 3600 ELSE argv.flags.expires[1]

C18_ExpiryPassedAndShown ==
  UrlSignedEntered =>
    /\ Len(calls) = 1
    /\ calls[1].op = "createSignedUrl"
    /\ calls[1].args[1] = argv.flags.path[1]
    /\ calls[1].args[2] = ExpectedExpiry
    /\ (pc = "done" /\ ResolvedWithData /\ ~argv.json) =>
         out[1] = [ch |-> "log", text |-> "Signed URL (expires in ${expiresIn}s):",
                   args |-> <<ExpectedExpiry>>]

C18_Witness ==
  /\ UrlSignedEntered
  /\ pc = "done"
  /\ ResolvedWithData
  /\ ~argv.json
  /\ argv.flags.expires = Some(7200)
  /\ calls[1].args[2] = 7200
  /\ out[1].args = <<7200>>

\* ------------------------------------------------------------------------
\* C19: for file download, info and exists, the remote path used for the
\* client call is --path when supplied, otherwise the first positional
\* argument after the bucket; when neither is present the action fails with
\* its 'path required' message and exit status 1 without calling the client.
\* ------------------------------------------------------------------------
TakesRemotePath ==
  /\ argv.group = "file"
  /\ argv.action \in {"download", "info", "exists"}
  /\ argv.key # ""
  /\ argv.bucket # ""

PathRequiredMessage ==
  IF argv.action = "download"
  THEN "Remote path required (use --path or provide as argument)"
  ELSE "File path required (use --path or provide as argument)"

ExpectedRemotePath == IF AbsentPath(argv.path) THEN argv.args[1][1] ELSE argv.path[1]

C19_PathFlagThenFirstPositional ==
  TakesRemotePath =>
    IF NoRemotePath(argv)
    THEN /\ NoClientOperation
         /\ pc = "done" => FailedWith(PathRequiredMessage)
    ELSE pc # "start" =>
           calls = <<[op |-> argv.action, from |-> argv.bucket,
                      args |-> <<ExpectedRemotePath>>]>>

C19_Witness ==
  /\ TakesRemotePath
  /\ argv.action = "info"
  /\ argv.path = Some(RemoteP)
  /\ argv.args = Some(<<ArgA>>)
  /\ pc = "done"
  /\ ResolvedWithData
  /\ calls[1].args = <<RemoteP>>

\* ------------------------------------------------------------------------
\* C20: file download writes the downloaded bytes to --output when supplied,
\* otherwise to the base name of the remote path, and writes to exactly one
\* local path: fs.writeFileSync is invoked once, with that path and the bytes
\* the client returned, and is not invoked at all by any other invocation.
\* ------------------------------------------------------------------------
DownloadReturned ==
  /\ argv.group = "file"
  /\ argv.action = "download"
  /\ pc = "done"
  /\ ResolvedWithData

\* the part after the last '/' of the remote paths an invocation can name
BaseNameOf(p) ==
  CASE p = <<"r", "/", "p", ".", "p", "n", "g">> -> <<"p", ".", "p", "n", "g">>
    [] p = <<"a", ".", "t", "x", "t">> -> <<"a", ".", "t", "x", "t">>
    [] p = <<"x", "/", "b">> -> <<"b">>

C20_DownloadWritesOnePath ==
  IF DownloadReturned
  THEN written = <<[path |-> IF argv.output # None THEN argv.output[1]
                             ELSE BaseNameOf(ExpectedRemotePath),
                    data |-> Val(resp).data[1]]>>
  ELSE written = <<>>

C20_Witness ==
  /\ DownloadReturned
  /\ argv.output = None
  /\ argv.path = Some(RemoteP)
  /\ localfs.writable
  /\ written = <<[path |-> <<"p", ".", "p", "n", "g">>, data |-> [size |-> 2048]]>>
  /\ out[Len(out)].ch = "success"

\* ------------------------------------------------------------------------
\* C21 (as stated): formatBytes(0) is '0 B'; for a positive integer n with
\* 1024^i <= n < 1024^(i+1), formatBytes(n) is n / 1024^i rounded to at most
\* two decimals (trailing zeros dropped), a space, and the i-th unit of B,
\* KB, MB, GB, TB.
\* The product (n / 1024^i) * 100 is rounded to a double before Math.round:
\* 720636413518807 bytes are 655.41499999... TB and are shown as '655.42 TB'.
\* ------------------------------------------------------------------------
FormatBytesReturned == argv.fn = "formatBytes" /\ pc = "done"

\* n / 1024^i to the nearest hundredth, halves up, in exact arithmetic
NearestHundredth(d) ==
  LET i == TopDigit(d) - 1
      exact == Times(d, 100, 0)
      halfAdded == IF i = 0 THEN exact ELSE AddAt(exact, i, 512)
  IN halfAdded[i + 1] + 1024 * halfAdded[i + 2]

UnitOf(d) ==
  CASE TopDigit(d) = 1 -> <<"B">>
    [] TopDigit(d) = 2 -> <<"K", "B">>
    [] TopDigit(d) = 3 -> <<"M", "B">>
    [] TopDigit(d) = 4 -> <<"G", "B">>
    [] TopDigit(d) = 5 -> <<"T", "B">>

C21_FormatBytesRoundsTwoDecimals ==
  FormatBytesReturned =>
    out[1] = IF argv.bytes = <<0, 0, 0, 0, 0>> THEN <<"0", " ", "B">>
             ELSE numberToString(NearestHundredth(argv.bytes)) \o <<" ">>
                    \o UnitOf(argv.bytes)

\* ------------------------------------------------------------------------
\* C22: getContentType depends only on the extension after the last dot of
\* the file name, compared case-insensitively: it returns the table entry
\* for the ten known extensions and 'application/octet-stream' for every
\* unrecognized or absent extension, so two file names whose last extensions
\* differ only in letter case get the same result. (The file name is the
\* last component of the path; a name with no dot, or whose only dot is its
\* first character, has no extension.)
\* ------------------------------------------------------------------------
GetContentTypeReturned == argv.fn = "getContentType" /\ pc = "done"

Largest(S) == CHOOSE x \in S : \A y \in S : y <= x

\* where the file name ends and starts in the path f, and where its last dot is
NameEnd(f) == Largest({k \in 1..Len(f) : f[k] # "/"} \cup {0})
NameStart(f) == Largest({k \in 1..NameEnd(f) : f[k] = "/"} \cup {0}) + 1
LastDot(f) == Largest({k \in NameStart(f)..NameEnd(f) : f[k] = "."} \cup {0})

UpperCase == <<"A", "B", "C", "D", "E", "F", "G", "H", "I", "J", "K", "L", "M",
               "N", "O", "P", "Q", "R", "S", "T", "U", "V", "W", "X", "Y", "Z">>
LowerCase == <<"a", "b", "c", "d", "e", "f", "g", "h", "i", "j", "k", "l", "m",
               "n", "o", "p", "q", "r", "s", "t", "u", "v", "w", "x", "y", "z">>
Folded(c) ==
  IF \E i \in 1..26 : UpperCase[i] = c THEN LowerCase[CHOOSE i \in 1..26 : UpperCase[i] = c]
  ELSE c
Raised(c) ==
  IF \E i \in 1..26 : LowerCase[i] = c THEN UpperCase[CHOOSE i \in 1..26 : LowerCase[i] = c]
  ELSE c

\* the extension of f, without its dot, in lower case; <<>> when f has none
FoldedExtension(f) ==
  IF LastDot(f) <= NameStart(f) THEN <<>>
  ELSE [k \in 1..(NameEnd(f) - LastDot(f)) |-> Folded(f[LastDot(f) + k])]

\* f with the letters of its extension in upper case, in lower case
ExtensionRaised(f) ==
  [k \in 1..Len(f) |-> IF LastDot(f) > NameStart(f) /\ k > LastDot(f) THEN Raised(f[k])
                       ELSE f[k]]
ExtensionFolded(f) ==
  [k \in 1..Len(f) |-> IF LastDot(f) > NameStart(f) /\ k > LastDot(f) THEN Folded(f[k])
                       ELSE f[k]]

TableEntry(e) ==
  CASE e \in {<<"j", "p", "g">>, <<"j", "p", "e", "g">>} -> "image/jpeg"
    [] e = <<"p", "n", "g">> -> "image/png"
    [] e = <<"g", "i", "f">> -> "image/gif"
    [] e = <<"w", "e", "b", "p">> -> "image/webp"
    [] e = <<"p", "d", "f">> -> "application/pdf"
    [] e = <<"j", "s", "o", "n">> -> "application/json"
    [] e = <<"t", "x", "t">> -> "text/plain"
    [] e = <<"m", "p", "4">> -> "video/mp4"
    [] e = <<"m", "p", "3">> -> "audio/mpeg"
    [] OTHER -> "application/octet-stream"

C22_ContentTypeByFoldedExtension ==
  GetContentTypeReturned =>
    /\ out[1] = TableEntry(FoldedExtension(argv.filename))
    /\ getContentType(ExtensionRaised(argv.filename)) = out[1]
    /\ getContentType(ExtensionFolded(argv.filename)) = out[1]

C22_Witness ==
  /\ GetContentTypeReturned
  /\ argv.filename = <<"d", "/", "a", ".", "J", "p", "g">>
  /\ out = <<"image/jpeg">>
  /\ ExtensionRaised(argv.filename) = <<"d", "/", "a", ".", "J", "P", "G">>

\* ------------------------------------------------------------------------
\* C23: each invocation is a single linear sequence run by exactly one
\* handler: credential check, argument validation, one storage-client
\* operation, rendering, end. At every point at most one client operation
\* has been started, none is started while another is in flight, and no part
\* of the result is rendered before the client call has returned (until
\* then only progress lines on the info channel are printed).
\* ------------------------------------------------------------------------
OnlyProgressPrinted == \A i \in 1..Len(out) : out[i].ch = "info"

LinearSoFar ==
  /\ Len(calls) <= 1
  /\ pc = "start" => calls = <<>> /\ out = <<>> /\ resp = None /\ exitCalls = <<>>
  /\ pc = "awaiting" => Len(calls) = 1 /\ resp = None /\ exitCalls = <<>> /\ OnlyProgressPrinted
  /\ (pc = "done" /\ resp = None) => calls = <<>> /\ exitCalls = <<1>>

LinearStep ==
  /\ <<pc, pc'>> \in {<<"start", "awaiting">>, <<"start", "done">>, <<"awaiting", "done">>}
  /\ calls' # calls => pc = "start" /\ calls' = Append(calls, calls'[Len(calls')])
  /\ pc = "awaiting" => resp' # None /\ calls' = calls
  /\ \A i \in 1..Len(out) : out'[i] = out[i]
  /\ argv' = argv

C23_SingleLinearSequence == [](LinearSoFar) /\ [][LinearStep]_vars

C23_Witness ==
  /\ pc = "awaiting"
  /\ argv.group = "file"
  /\ argv.action = "download"
  /\ Len(calls) = 1
  /\ out = <<[ch |-> "info", text |-> "Downloading...", args |-> <<>>]>>

\* ------------------------------------------------------------------------
\* C24: the output mode selects exactly one rendering. With the json flag
\* set, a successful action emits only the JSON serialization of the result
\* (no human-readable status or template line); with the flag unset it emits
\* only the human-readable template and no JSON.
\* ------------------------------------------------------------------------
IsJsonLine(line) == line.ch = "log" /\ line.text = "${json}"

C24_ExactlyOneRendering ==
  ActionSucceeded =>
    IF argv.json
    THEN /\ out # <<>>
         /\ \A i \in 1..Len(out) : IsJsonLine(out[i])
    ELSE \A i \in 1..Len(out) : ~IsJsonLine(out[i])

\* ------------------------------------------------------------------------
\* C25: for url public, signed and signed-urls, the client is called with an
\* options argument {download: v} exactly when a download value v was
\* supplied (true, a file name, or the empty string of a bare --download),
\* with v passed unchanged; when no download value was supplied the client
\* is called with no options argument at all.
\* ------------------------------------------------------------------------
UrlWithDownloadOption ==
  /\ argv.group = "url"
  /\ argv.action \in {"public", "signed", "signed-urls"}

\* number of arguments before the options: the path, then the expiry
PlainArguments == IF argv.action = "public" THEN 1 ELSE 2

C25_DownloadOptionPassedUnchanged ==
  (UrlWithDownloadOption /\ calls # <<>>) =>
    /\ Len(calls) = 1
    /\ IF argv.download = None
       THEN Len(calls[1].args) = PlainArguments
       ELSE /\ Len(calls[1].args) = PlainArguments + 1
            /\ calls[1].args[PlainArguments + 1] = [download |-> Val(argv.download)]

C25_Witness ==
  /\ UrlWithDownloadOption
  /\ argv.action = "signed-urls"
  /\ argv.download = Some([type |-> "string", s |-> "name.txt"])
  /\ pc = "done"
  /\ Len(calls) = 1
  /\ Len(calls[1].args) = 3
  /\ calls[1].args[3].download.s = "name.txt"

\* ------------------------------------------------------------------------
\* C26: when several inputs are invalid at once, only the first failing
\* check is reported. The checks run in the order key, then bucket (file and
\* url groups) or bucket name (bucket group), then the action's own
\* arguments, and exactly one error message is printed per invocation before
\* the exit with status 1 (an empty key together with an empty bucket
\* reports only 'Storage key not set').
\* ------------------------------------------------------------------------
FirstFailingCheck ==
  IF argv.key = "" THEN Some("Storage key not set") ELSE MissingArgument(argv)

C26_OnlyFirstFailureReported ==
  /\ Len(ErrorChannel(out)) <= 1
  /\ exitCalls \in {<<>>, <<1>>}
  /\ exitCalls = <<1>> => Len(ErrorChannel(out)) = 1
  /\ (pc = "done" /\ FirstFailingCheck # None) =>
       /\ ErrorChannel(out) = <<ErrorLine(Val(FirstFailingCheck))>>
       /\ exitCalls = <<1>>
       /\ calls = <<>>

C26_Witness ==
  /\ pc = "done"
  /\ argv.group = "file"
  /\ argv.key = ""
  /\ argv.bucket = ""
  /\ ErrorChannel(out) = <<ErrorLine("Storage key not set")>>
  /\ exitCalls = <<1>>

\* ------------------------------------------------------------------------
\* C27: for file upload and file update the local source file is read before
\* the client operation is started. If reading the local file fails, the
\* handler prints the failure message, exits with status 1, and no upload or
\* update call is made, so remote state is unchanged; otherwise the one call
\* made carries the bytes that were read.
\* ------------------------------------------------------------------------
SourceFileGiven == UploadOrUpdate /\ MissingArgument(argv) = None

ReadFailureReported ==
  /\ out = <<[ch |-> "error",
              text |-> "ENOENT: no such file or directory, open '${filePath}'",
              args |-> <<Val(argv.file)>>]>>
  /\ exitCalls = <<1>>

C27_LocalReadPrecedesTransfer ==
  (SourceFileGiven /\ pc # "start") =>
    IF localfs.readable
    THEN /\ Len(calls) = 1
         /\ calls[1].op = argv.action
         /\ calls[1].args[2] = fileBuffer(Val(argv.file))
         /\ out[1].ch = "info"
    ELSE /\ pc = "done"
         /\ calls = <<>>
         /\ resp = None
         /\ ReadFailureReported

C27_Witness ==
  /\ SourceFileGiven
  /\ argv.action = "update"
  /\ ~localfs.readable
  /\ pc = "done"
  /\ calls = <<>>
  /\ ReadFailureReported

\* ------------------------------------------------------------------------
\* C28: file download leaves the local filesystem unchanged unless the
\* client's download call returned without error. On a client error no local
\* file is created or overwritten, and the success message is printed only
\* after the file has been written.
\* ------------------------------------------------------------------------
FileDownload == argv.group = "file" /\ argv.action = "download"

SuccessPrinted == \E i \in 1..Len(out) : out[i].ch = "success"

C28_DownloadWritesOnlyOnSuccess ==
  FileDownload =>
    /\ ~ResolvedWithData => written = <<>> /\ ~SuccessPrinted
    /\ (pc = "done" /\ ResolvedWithError) => ErrorReported
    /\ SuccessPrinted =>
         /\ ResolvedWithData
         /\ Len(written) = 1
         /\ localfs.writable

C28_Witness ==
  /\ FileDownload
  /\ pc = "done"
  /\ ResolvedWithError
  /\ Len(calls) = 1
  /\ written = <<>>
  /\ ~SuccessPrinted

\* ------------------------------------------------------------------------
\* C29: for every integer byte count n with 1 <= n < 1024^5, formatBytes(n)
\* is in normalized form: its unit is one of B, KB, MB, GB, TB and its
\* numeric part m satisfies 1 <= m < 1024 (a value is never shown as 1024 of
\* a smaller unit). Read off the returned text: the unit is what follows the
\* space, and the digits before the decimal point spell a number from 1 to
\* 1023.
\* ------------------------------------------------------------------------
SpaceAt(s) == CHOOSE i \in 1..Len(s) : s[i] = " "

\* the digits before the decimal point, or before the space when there is none
WholePart(s) ==
  LET stops == {i \in 1..Len(s) : s[i] \in {".", " "}}
      first == CHOOSE i \in stops : \A j \in stops : i <= j
  IN SubSeq(s, 1, first - 1)

SpellsOneTo1023(w) ==
  /\ Len(w) \in 1..4
  /\ \A i \in 1..Len(w) : w[i] \in {"0", "1", "2", "3", "4", "5", "6", "7", "8", "9"}
  /\ w[1] # "0"
  /\ Len(w) = 4 =>
       /\ w[1] = "1"
       /\ w[2] = "0"
       /\ w[3] \in {"0", "1", "2"}
       /\ w[3] = "2" => w[4] \in {"0", "1", "2", "3"}

C29_FormatBytesNormalized ==
  (FormatBytesReturned /\ argv.bytes # <<0, 0, 0, 0, 0>>) =>
    /\ SubSeq(out[1], SpaceAt(out[1]) + 1, Len(out[1]))
         \in {<<"B">>, <<"K", "B">>, <<"M", "B">>, <<"G", "B">>, <<"T", "B">>}
    /\ SpellsOneTo1023(WholePart(out[1]))

====
